---------------------------- MODULE Spec2Model ----------------------------
(***************************************************************************)
(* Verification model of the component composition runtime:                *)
(*   - DependencyGraph (common/src/discovery.rs): cycle detection and      *)
(*     topological ordering;                                               *)
(*   - DiContainerImpl (di-impl/src/lib.rs): registration and resolution;  *)
(*   - AdSystemConfigManager (config-impl/src/manager.rs): providers,      *)
(*     value cache, snapshot history, rollback and change-event handling;  *)
(*   - InfrastructureBuilder and AdSystemInfrastructure (composition/src): *)
(*     build, start, stop and the health sweeps.                           *)
(* Each subsystem has its own specification (SpecGraph, SpecDI,            *)
(* SpecConfig, SpecInfra, ...) over the shared variable list; the          *)
(* variables of the other subsystems stay at their constructed values.     *)
(***************************************************************************)
EXTENDS Integers, Sequences, FiniteSets, TLC

None == "none"

\* ---------------------------------------------------------------------
\* Generic sequence helpers
\* ---------------------------------------------------------------------
Range(s) == {s[i] : i \in 1..Len(s)}

\* all orders in which the elements of a finite set can be iterated
Orders(S) == {s \in [1..Cardinality(S) -> S] : \A i, j \in 1..Cardinality(S) : s[i] = s[j] => i = j}

\* sequences over S of length <= n without repeated elements
DistinctSeqs(S, n) ==
  UNION {{s \in [1..k -> S] : \A i, j \in 1..k : s[i] = s[j] => i = j} : k \in 0..n}

\* Vec::iter().position(|n| n == x): the first index holding x (0 if absent)
PositionOf(s, x) ==
  IF x \in Range(s) THEN CHOOSE i \in 1..Len(s) : s[i] = x /\ \A j \in 1..(i-1) : s[j] # x
  ELSE 0

\* =====================================================================
\* State
\* =====================================================================
VARIABLES
  \* --- DependencyGraph ---
  nodes,        \* DependencyGraph.nodes: the keys of the node map
  edges,        \* DependencyGraph.edges: Vec<DependencyInfo>, in push order
  graphLast,    \* outcome of the last query made on the graph
  \* --- DiContainerImpl ---
  registrations, \* DiContainerImpl.registrations: HashMap<TypeId, ComponentRegistration>
  singletons,    \* DiContainerImpl.singletons: HashMap<TypeId, Arc<dyn Any>>
  nextPtr,       \* number of Arc allocations made so far (the next fresh pointer)
  handles,       \* per identity: the handles resolve returned since the identity
                 \* was last (re-)registered or the container cleared
  diLast,        \* the last container operation and its outcome
  \* --- AdSystemConfigManager ---
  disk,               \* the content of each provider's configuration file
  providers,          \* AdSystemConfigManager.providers: Vec<Box<dyn ConfigProvider>>
  config_cache,       \* AdSystemConfigManager.config_cache: HashMap<String, Value>
  cache_enabled,      \* AdSystemConfigManager.cache_enabled
  hot_reload_enabled, \* AdSystemConfigManager.hot_reload_enabled
  config_history,     \* AdSystemConfigManager.config_history: Vec<ConfigSnapshot>
  max_history_size,   \* AdSystemConfigManager.max_history_size
  event_handler,      \* AdSystemConfigManager.event_handler is Some(handler)
  is_watching,        \* ConfigFileWatcher.is_watching of the watcher given to the manager
  change_handler_task, \* AdSystemConfigManager.change_handler_task holds a live loop
  cfgLast,            \* the last manager operation and its outcome
  \* --- AdSystemInfrastructure, AggregateHealthChecker ---
  status,           \* AdSystemInfrastructure.status (None while no instance is built)
  health_checkers,  \* AdSystemInfrastructure.health_checkers: Vec<Box<dyn HealthCheckable>>
  start_pc,         \* the position of the start() call in progress
  stop_pc,          \* the position of the stop() call in progress
  checkers,         \* AggregateHealthChecker.checkers: Vec<Box<dyn HealthCheckable>>
  infraLast,        \* the last orchestrator or health operation and its outcome
  \* --- resolve() calls in progress on the DiContainerImpl ---
  resolving,             \* per task: the stack of resolve() calls it is in, outermost first
  registrations_readers, \* per task: the read guards it holds on DiContainerImpl.registrations
  resolved,              \* per task: the outcome of the last resolve() call it completed
  \* --- the hot-reload pipeline: queue, consumption loop, event handler ---
  change_queue,     \* the events in the channel between change_sender and the loop's receiver
  change_loop,      \* the consumption loop task: where it is suspended, and the event it holds
  loop_manager,     \* the manager the loop task owns (manager_clone)
  handler,          \* the ConfigEventHandler: its dispatch task and its channel
  arrived,          \* the events put on the queue since the loop was spawned, in order
  started,          \* the events the loop has taken off the queue, in order
  snapshotted,      \* the events for which the loop has reached the snapshot step
  finished,         \* the events whose processing has returned, in order
  pipeLast,         \* the last step of the pipeline
  \* --- callers of resolve_scoped ---
  scoped_handles,   \* the handles resolve_scoped returned, each with the scope it was asked for
  \* --- ConfigFileWatcher ---
  watcher           \* debounce_delay, the events sent on change_sender, and the clock

graphVars == <<nodes, edges, graphLast>>
diVars == <<registrations, singletons, nextPtr, handles, diLast>>
cfgVars == <<disk, providers, config_cache, cache_enabled, hot_reload_enabled,
             config_history, max_history_size, event_handler, is_watching,
          change_handler_task, cfgLast>>
infraVars == <<status, health_checkers, start_pc, stop_pc, checkers, infraLast>>
resolveVars == <<resolving, registrations_readers, resolved>>
pipeVars == <<change_queue, change_loop, loop_manager, handler, arrived, started,
              snapshotted, finished, pipeLast>>
scopeVars == <<scoped_handles>>
watcherVars == <<watcher>>
vars == <<nodes, edges, graphLast, registrations, singletons, nextPtr, handles, diLast,
          disk, providers, config_cache, cache_enabled, hot_reload_enabled,
          config_history, max_history_size, event_handler, is_watching,
          change_handler_task, cfgLast,
          status, health_checkers, start_pc, stop_pc, checkers, infraLast,
          resolving, registrations_readers, resolved,
          change_queue, change_loop, loop_manager, handler, arrived, started,
          snapshotted, finished, pipeLast, scoped_handles, watcher>>

\* =====================================================================
\* DependencyGraph
\* =====================================================================
TypeInfos == {"A", "B", "C"}
MaxEdges == 4
MaxDeps == 2
MaxOptionalEdges == 1

\* adjacency_list[n]: the dependencies pushed for dependent n, in push order
\* (add_dependency pushes every edge, optional or not)
adjacency_list(es, n) ==
  LET mine == SelectSeq(es, LAMBDA e : e.dependent = n)
  IN [i \in 1..Len(mine) |-> mine[i].dependency]

DependencyGraphNew ==
  /\ nodes = {}
  /\ edges = <<>>
  /\ graphLast = [op |-> None]

\* add_dependency appended for each element of a dependency list
RECURSIVE PushDeps(_, _, _)
PushDeps(es, t, deps) ==
  IF deps = <<>> THEN es
  ELSE PushDeps(Append(es, [dependent |-> t, dependency |-> Head(deps), optional |-> FALSE]),
                t, Tail(deps))

\* Each component is added once: build_dependency_graph adds one node per
\* value of the registry map.
add_component(t, deps) ==
  /\ t \notin nodes
  /\ Len(edges) + Len(deps) <= MaxEdges
  /\ nodes' = nodes \cup {t}
  /\ edges' = PushDeps(edges, t, deps)
  /\ graphLast' = [op |-> None]

\* Called directly (not through add_component) only to declare an optional
\* dependency; at most MaxOptionalEdges such edges are declared.
add_dependency(dependent, dependency, optional) ==
  /\ optional
  /\ Len(edges) < MaxEdges
  /\ Cardinality({i \in 1..Len(edges) : edges[i].optional}) < MaxOptionalEdges
  /\ edges' = Append(edges, [dependent |-> dependent, dependency |-> dependency,
                             optional |-> optional])
  /\ graphLast' = [op |-> None]
  /\ UNCHANGED nodes

\* ---- topological_sort ------------------------------------------------
\* in_degree after the two counting loops: 0 for every node, then +1 on the
\* DEPENDENT of every non-optional edge (entry().or_insert(0) adds dependents
\* that are not nodes)
InDegreeKeys(ns, es) ==
  ns \cup {es[i].dependent : i \in {j \in 1..Len(es) : ~es[j].optional}}

InDegree(ns, es) ==
  [n \in InDegreeKeys(ns, es) |->
     Cardinality({i \in 1..Len(es) : ~es[i].optional /\ es[i].dependent = n})]

\* the inner `for dep in dependencies` loop of Kahn's while-loop
RECURSIVE RelaxDeps(_, _, _)
RelaxDeps(deps, deg, queue) ==
  IF deps = <<>> THEN [deg |-> deg, queue |-> queue]
  ELSE LET d == Head(deps) IN
       IF d \in DOMAIN deg
       THEN LET deg2 == [deg EXCEPT ![d] = @ - 1]
            IN RelaxDeps(Tail(deps), deg2,
                         IF deg2[d] = 0 THEN Append(queue, d) ELSE queue)
       ELSE RelaxDeps(Tail(deps), deg, queue)

\* the `while let Some(node) = queue.pop_front()` loop
RECURSIVE Kahn(_, _, _, _)
Kahn(es, queue, deg, result) ==
  IF queue = <<>> THEN result
  ELSE LET node == Head(queue)
           r == RelaxDeps(adjacency_list(es, node), deg, Tail(queue))
       IN Kahn(es, r.queue, r.deg, Append(result, node))

\* iterOrder: the order in which the in_degree HashMap is iterated
TopoResult(ns, es, iterOrder) ==
  LET deg == InDegree(ns, es)
      seeds == SelectSeq(iterOrder, LAMBDA n : deg[n] = 0)
      result == Kahn(es, seeds, deg, <<>>)
  IN IF Len(result) # Cardinality(ns)
     THEN [op |-> "topological_sort", ok |-> FALSE, order |-> <<>>]
     ELSE [op |-> "topological_sort", ok |-> TRUE, order |-> result]

topological_sort ==
  /\ \E iterOrder \in Orders(InDegreeKeys(nodes, edges)) :
       graphLast' = TopoResult(nodes, edges, iterOrder)
  /\ UNCHANGED <<nodes, edges>>

\* ---- detect_circular_dependencies -------------------------------------
RECURSIVE dfs_detect_cycle(_, _, _)
RECURSIVE DfsDeps(_, _, _)

dfs_detect_cycle(es, node, st) ==
  LET st1 == [visited |-> st.visited \cup {node},
              rec_stack |-> st.rec_stack \cup {node},
              path |-> Append(st.path, node),
              cycles |-> st.cycles]
      st2 == DfsDeps(es, adjacency_list(es, node), st1)
  IN [st2 EXCEPT !.path = SubSeq(@, 1, Len(@) - 1), !.rec_stack = @ \ {node}]

DfsDeps(es, deps, st) ==
  IF deps = <<>> THEN st
  ELSE LET dep == Head(deps) IN
       IF dep \in st.rec_stack
       THEN LET start == PositionOf(st.path, dep)
            IN DfsDeps(es, Tail(deps),
                 IF start > 0
                 THEN [st EXCEPT !.cycles = Append(@, SubSeq(st.path, start, Len(st.path)))]
                 ELSE st)
       ELSE IF dep \notin st.visited
            THEN DfsDeps(es, Tail(deps), dfs_detect_cycle(es, dep, st))
            ELSE DfsDeps(es, Tail(deps), st)

\* the `for node in self.nodes.keys()` loop; keyOrder is the HashMap's order
RECURSIVE DetectFrom(_, _, _)
DetectFrom(es, keyOrder, st) ==
  IF keyOrder = <<>> THEN st
  ELSE IF Head(keyOrder) \notin st.visited
       THEN DetectFrom(es, Tail(keyOrder),
                       dfs_detect_cycle(es, Head(keyOrder), [st EXCEPT !.path = <<>>]))
       ELSE DetectFrom(es, Tail(keyOrder), st)

DetectResult(ns, es, keyOrder) ==
  LET st == DetectFrom(es, keyOrder,
                       [visited |-> {}, rec_stack |-> {}, path |-> <<>>, cycles |-> <<>>])
  IN [op |-> "detect_circular_dependencies", ok |-> st.cycles = <<>>, cycles |-> st.cycles]

detect_circular_dependencies ==
  /\ \E keyOrder \in Orders(nodes) : graphLast' = DetectResult(nodes, edges, keyOrder)
  /\ UNCHANGED <<nodes, edges>>


\* =====================================================================
\* DiContainerImpl
\* =====================================================================
TypeIds == {"T1", "T2"}
Factories == {"f1", "f2"}
Lifetimes == {"Singleton", "Scoped", "Transient"}
MaxInstances == 2
MaxHandles == 2

\* A HashMap is a set of <<key, value>> pairs holding at most one pair per key.
HashMapContainsKey(m, k) == \E e \in m : e[1] = k

HashMapGet(m, k) == (CHOOSE e \in m : e[1] = k)[2]

\* HashMap::insert replaces the value an equal key already has
HashMapInsert(m, k, v) == {e \in m : e[1] # k} \cup {<<k, v>>}

HashMapValues(m, k) == {e[2] : e \in {x \in m : x[1] = k}}

ComponentRegistration(lifetime, factory, singleton) ==
  [lifetime |-> lifetime, factory |-> factory, singleton |-> singleton]

\* Arc::new: a pointer no live handle has; the tags record how and under
\* which lifetime the instance came to be
ArcNew(via, lifetime) == [ptr |-> nextPtr, via |-> via, lifetime |-> lifetime]

DiContainerImplNew ==
  /\ registrations = {}
  /\ singletons = {}
  /\ nextPtr = 0
  /\ handles = [t \in TypeIds |-> <<>>]
  /\ diLast = [op |-> None]

is_registered_by_type_id(t) == HashMapContainsKey(registrations, t)

get_registered_components == {e[1] : e \in registrations}

\* (mutation of InsertRegistration: an identity that is already registered
\* keeps its first registration)
InsertRegistration_KeepFirst(regs, t, registration) ==
  IF HashMapContainsKey(regs, t) THEN regs ELSE HashMapInsert(regs, t, registration)

\* the registration table after `registrations.insert(type_id, registration)`
InsertRegistration(regs, t, registration) == HashMapInsert(regs, t, registration)

register_component(t, lifetime) ==
  LET registration == ComponentRegistration(lifetime, None, None) IN
  /\ registrations' = InsertRegistration(registrations, t, registration)
  /\ handles' = [handles EXCEPT ![t] = <<>>]
  /\ diLast' = [op |-> "register_component", id |-> t, registration |-> registration]
  /\ UNCHANGED <<singletons, nextPtr>>

register_instance(t) ==
  LET instance_arc == ArcNew("instance", "Singleton")
      registration == ComponentRegistration("Singleton", None, instance_arc) IN
  /\ nextPtr < MaxInstances
  /\ nextPtr' = nextPtr + 1
  /\ registrations' = InsertRegistration(registrations, t, registration)
  /\ singletons' = HashMapInsert(singletons, t, instance_arc)
  /\ handles' = [handles EXCEPT ![t] = <<>>]
  /\ diLast' = [op |-> "register_instance", id |-> t, registration |-> registration]

register_factory(t, factory, lifetime) ==
  LET registration == ComponentRegistration(lifetime, factory, None) IN
  /\ registrations' = InsertRegistration(registrations, t, registration)
  /\ handles' = [handles EXCEPT ![t] = <<>>]
  /\ diLast' = [op |-> "register_factory", id |-> t, registration |-> registration]
  /\ UNCHANGED <<singletons, nextPtr>>

\* (mutation of CacheCreated: the created instance is never cached)
CacheCreated_Never(cache, t, registration, instance) == cache

\* the singleton cache after a factory produced `instance`: only a Singleton
\* registration caches it
CacheCreated(cache, t, registration, instance) ==
  IF registration.lifetime = "Singleton" THEN HashMapInsert(cache, t, instance) ELSE cache

\* resolve::<T>(); factoryOk is whether the registered factory returns Ok
resolve(t, factoryOk) ==
  /\ Len(handles[t]) < MaxHandles
  /\ IF HashMapContainsKey(singletons, t)
     THEN \* served from the singleton cache
          LET instance == HashMapGet(singletons, t) IN
          /\ handles' = [handles EXCEPT ![t] = Append(@, instance)]
          /\ diLast' = [op |-> "resolve", id |-> t, result |-> "Ok",
                        instance |-> instance, created |-> FALSE]
          /\ UNCHANGED <<registrations, singletons, nextPtr>>
     ELSE IF HashMapContainsKey(registrations, t)
     THEN LET registration == HashMapGet(registrations, t) IN
          IF registration.factory # None
          THEN IF factoryOk
               THEN LET instance == ArcNew(registration.factory, registration.lifetime) IN
                    /\ nextPtr < MaxInstances
                    /\ nextPtr' = nextPtr + 1
                    /\ singletons' = CacheCreated(singletons, t, registration, instance)
                    /\ handles' = [handles EXCEPT ![t] = Append(@, instance)]
                    /\ diLast' = [op |-> "resolve", id |-> t, result |-> "Ok",
                                  instance |-> instance, created |-> TRUE]
                    /\ UNCHANGED registrations
               ELSE /\ diLast' = [op |-> "resolve", id |-> t,
                                  result |-> "ComponentCreationFailed",
                                  instance |-> None, created |-> FALSE]
                    /\ UNCHANGED <<registrations, singletons, nextPtr, handles>>
          ELSE IF registration.singleton # None
          THEN /\ handles' = [handles EXCEPT ![t] = Append(@, registration.singleton)]
               /\ diLast' = [op |-> "resolve", id |-> t, result |-> "Ok",
                             instance |-> registration.singleton, created |-> FALSE]
               /\ UNCHANGED <<registrations, singletons, nextPtr>>
          ELSE /\ diLast' = [op |-> "resolve", id |-> t,
                             result |-> "ComponentCreationFailed",
                             instance |-> None, created |-> FALSE]
               /\ UNCHANGED <<registrations, singletons, nextPtr, handles>>
     ELSE /\ diLast' = [op |-> "resolve", id |-> t, result |-> "ComponentNotRegistered",
                        instance |-> None, created |-> FALSE]
          /\ UNCHANGED <<registrations, singletons, nextPtr, handles>>

\* the scopes callers resolve in
Scopes == {"scope1", "scope2"}

\* no caller holds a handle from resolve_scoped
ScopedHandlesNone == scoped_handles = <<>>

\* resolve_scoped::<T>(&scope): the scope is not looked at, the call is
\* resolve::<T>() and its result is returned as it is
resolve_scoped(t, scope, factoryOk) ==
  /\ resolve(t, factoryOk)
  /\ scoped_handles' =
       IF diLast'.result = "Ok"
       THEN Append(scoped_handles, [scope |-> scope, id |-> t, instance |-> diLast'.instance])
       ELSE scoped_handles

\* (mutation of clear: the singleton cache is kept)
clear_KeepSingletons ==
  /\ registrations' = {}
  /\ UNCHANGED singletons
  /\ handles' = [t \in TypeIds |-> <<>>]
  /\ diLast' = [op |-> "clear", had |-> get_registered_components,
                 cached |-> {e[1] : e \in singletons}]
  /\ UNCHANGED nextPtr

\* clear(); diLast keeps the identities that were registered and those that
\* had a cached instance when it was called
clear ==
  /\ registrations' = {}
  /\ singletons' = {}
  /\ handles' = [t \in TypeIds |-> <<>>]
  /\ diLast' = [op |-> "clear", had |-> get_registered_components,
                 cached |-> {e[1] : e \in singletons}]
  /\ UNCHANGED nextPtr

\* =====================================================================
\* AdSystemConfigManager
\* =====================================================================
\* A configuration key is its dotted path split on '.', as get_nested_value
\* splits it: "db.port" is <<"db", "port">>.  A file content maps the leaf
\* paths it defines to their values.
ProviderNames == {"P1", "P2"}
Priorities == {50, 100}
Keys == {<<"db", "port">>, <<"db", "host">>, <<"timeout_ms">>}
SectionNames == {"db", "timeout_ms"}
File1 == (<<"db", "port">> :> 5432)
File2 == (<<"db", "port">> :> 5433) @@ (<<"db", "host">> :> "localhost")
File3 == (<<"timeout_ms">> :> 200)
File4 == (<<"timeout_ms">> :> 300)
File5 == (<<"timeout_ms">> :> 50)
\* the file contents written while sections are merged, and while the
\* manager of provider P1 is reloaded
SectionContents == {File1, File2, File3}
ReloadContents == {File3, File4, File5}
ReloadProviderNames == {"P1"}
\* priority of a TomlConfigProvider that with_priority() did not change
TomlDefaultPriority == 100
MaxHistory == 2
DefaultMaxHistorySize == 10

EventTypes == {"Created", "Updated", "Deleted", "Reloaded", "ValidationFailed",
               "SourceConnectionFailed", "SourceConnectionRestored"}

\* AdSystemConfigManager::new(), with every provider file holding File3
AdSystemConfigManagerNew ==
  /\ disk = [n \in ProviderNames |-> File3]
  /\ providers = <<>>
  /\ config_cache = <<>>
  /\ cache_enabled = TRUE
  /\ hot_reload_enabled = FALSE
  /\ config_history = <<>>
  /\ max_history_size = DefaultMaxHistorySize
  /\ event_handler = FALSE
  /\ is_watching = FALSE
  /\ change_handler_task = FALSE
  /\ cfgLast = [op |-> None]

\* the cache after clear_cache(): cleared only when the cache is enabled
clear_cache == IF cache_enabled THEN <<>> ELSE config_cache

\* providers.sort_by(|a, b| b.priority().cmp(&a.priority())): a stable sort
\* by descending priority
RECURSIVE SortByPriority(_)
SortByPriority(ps) ==
  IF Len(ps) <= 1 THEN ps
  ELSE LET rest == SortByPriority(SubSeq(ps, 1, Len(ps) - 1))
           x == ps[Len(ps)]
           before == {i \in 1..Len(rest) : rest[i].priority >= x.priority}
           k == Cardinality(before)
       IN SubSeq(rest, 1, k) \o <<x>> \o SubSeq(rest, k + 1, Len(rest))

\* a file provider built by new(path).with_priority(priority): the file is
\* loaded at construction
ProviderNew(name, priority) == [name |-> name, priority |-> priority, config |-> disk[name]]

register_provider(name, priority) ==
  /\ \A i \in 1..Len(providers) : providers[i].name # name
  /\ providers' = SortByPriority(Append(providers, ProviderNew(name, priority)))
  /\ config_cache' = clear_cache
  /\ cfgLast' = [op |-> "register_provider", result |-> "Ok"]
  /\ UNCHANGED <<disk, cache_enabled, hot_reload_enabled, config_history, max_history_size, event_handler, is_watching, change_handler_task>>

unregister_provider(name) ==
  LET retained == SelectSeq(providers, LAMBDA q : q.name # name)
  IN /\ providers' = retained
     /\ IF Len(retained) < Len(providers)
        THEN /\ config_cache' = clear_cache
             /\ cfgLast' = [op |-> "unregister_provider", result |-> "Ok"]
        ELSE /\ cfgLast' = [op |-> "unregister_provider", result |-> "KeyNotFound"]
             /\ UNCHANGED config_cache
     /\ UNCHANGED <<disk, cache_enabled, hot_reload_enabled, config_history, max_history_size, event_handler, is_watching, change_handler_task>>

\* index of the first provider, in priority order, whose get_configuration
\* finds the key (0 if none)
FirstProviderWith(key) ==
  LET found == {i \in 1..Len(providers) : key \in DOMAIN providers[i].config}
  IN IF found = {} THEN 0 ELSE CHOOSE i \in found : \A j \in found : i <= j

get_configuration(key) ==
  IF cache_enabled /\ key \in DOMAIN config_cache
  THEN /\ cfgLast' = [op |-> "get_configuration", key |-> key, result |-> "Ok",
                      value |-> config_cache[key]]
       /\ UNCHANGED <<disk, providers, config_cache, cache_enabled, hot_reload_enabled,
                      config_history, max_history_size, event_handler, is_watching, change_handler_task>>
  ELSE IF FirstProviderWith(key) # 0
  THEN /\ config_cache' = IF cache_enabled
                          THEN (key :> providers[FirstProviderWith(key)].config[key]) @@ config_cache
                          ELSE config_cache
       /\ cfgLast' = [op |-> "get_configuration", key |-> key, result |-> "Ok",
                      value |-> providers[FirstProviderWith(key)].config[key]]
       /\ UNCHANGED <<disk, providers, cache_enabled, hot_reload_enabled,
                      config_history, max_history_size, event_handler, is_watching, change_handler_task>>
  ELSE /\ cfgLast' = [op |-> "get_configuration", key |-> key, result |-> "KeyNotFound"]
       /\ UNCHANGED <<disk, providers, config_cache, cache_enabled, hot_reload_enabled,
                      config_history, max_history_size, event_handler, is_watching, change_handler_task>>

\* ConfigProvider::get_section of a file provider
ProviderGetSection(provider, section_name) ==
  IF <<section_name>> \in DOMAIN provider.config
  THEN [result |-> "TypeConversionError", data |-> <<>>]
  ELSE LET ks == {q[2] : q \in {r \in DOMAIN provider.config : Len(r) = 2 /\ r[1] = section_name}}
       IN IF ks = {} THEN [result |-> "KeyNotFound", data |-> <<>>]
          ELSE [result |-> "Ok", data |-> [k \in ks |-> provider.config[<<section_name, k>>]]]

\* (mutation of MergeSection: a later provider overrides the keys already present)
MergeSection_Override(combined, section) == section @@ combined

\* the inner loop of get_section: insert the keys not already present
MergeSection(combined, section) == combined @@ section

RECURSIVE CombineSections(_, _, _)
CombineSections(ps, section_name, combined) ==
  IF ps = <<>> THEN combined
  ELSE LET r == ProviderGetSection(Head(ps), section_name)
       IN CombineSections(Tail(ps), section_name,
                          IF r.result = "Ok" THEN MergeSection(combined, r.data) ELSE combined)

get_section(section_name) ==
  LET combined == CombineSections(providers, section_name, <<>>)
  IN /\ cfgLast' = IF DOMAIN combined = {}
                   THEN [op |-> "get_section", section |-> section_name,
                         result |-> "KeyNotFound", data |-> <<>>]
                   ELSE [op |-> "get_section", section |-> section_name,
                         result |-> "Ok", data |-> combined]
     /\ UNCHANGED <<disk, providers, config_cache, cache_enabled, hot_reload_enabled,
                    config_history, max_history_size, event_handler, is_watching, change_handler_task>>

\* reload_all: every provider re-reads its file, then clear_cache()
reload_all ==
  /\ providers' = [i \in 1..Len(providers) |->
                     [providers[i] EXCEPT !.config = disk[providers[i].name]]]
  /\ config_cache' = clear_cache
  /\ cfgLast' = [op |-> "reload_all", result |-> "Ok"]
  /\ UNCHANGED <<disk, cache_enabled, hot_reload_enabled, config_history, max_history_size, event_handler, is_watching, change_handler_task>>

set_cache_enabled(enabled) ==
  /\ cache_enabled' = enabled
  /\ cfgLast' = [op |-> "set_cache_enabled"]
  /\ UNCHANGED <<disk, providers, config_cache, hot_reload_enabled, config_history,
                 max_history_size, event_handler, is_watching, change_handler_task>>

\* the environment rewrites a provider's file
WriteFile(name, content) ==
  /\ disk[name] # content
  /\ disk' = [disk EXCEPT ![name] = content]
  /\ cfgLast' = [op |-> "WriteFile", path |-> name]
  /\ UNCHANGED <<providers, config_cache, cache_enabled, hot_reload_enabled,
                 config_history, max_history_size, event_handler, is_watching, change_handler_task>>

\* a snapshot may be pushed while the history is below the explored length, or
\* when the push is followed by history.remove(0), which keeps the length
SnapshotFits ==
  \/ Len(config_history) < MaxHistory
  \/ Len(config_history) >= max_history_size

\* the history after create_config_snapshot(description): the snapshot holds a
\* copy of the cache (get_all_config_data) and the version history.len() + 1;
\* the oldest snapshot is dropped when the history exceeds max_history_size
create_config_snapshot(history, description) ==
  LET snapshot == [config_data |-> config_cache,
                   version |-> Len(history) + 1,
                   description |-> description]
      pushed == Append(history, snapshot)
  IN IF Len(pushed) > max_history_size THEN Tail(pushed) ELSE pushed

\* the capacity of the channel between change_sender and the loop
\* (mpsc::channel(1000) in the source, explored with a small capacity)
ChangeQueueCapacity == 2

\* the events put on the queue of one loop that are explored
MaxEvents == 2

NoEvent == [event_type |-> None, path |-> None, seq |-> 0]

\* AdSystemConfigManager::new(), as far as the loop uses it: empty cache,
\* empty history, default history cap, no event handler
FreshManager ==
  [config_cache |-> <<>>, config_history |-> <<>>,
   max_history_size |-> DefaultMaxHistorySize, event_handler |-> FALSE]

\* (mutation of clone_for_event_handling: the clone shares the event handler
\* of the manager it is made from)
clone_for_event_handling_Shared == [FreshManager EXCEPT !.event_handler = event_handler]

\* clone_for_event_handling(): a new manager, with nothing of self in it
clone_for_event_handling == FreshManager

\* the state before any loop was spawned
ChangePipelineNone ==
  /\ change_queue = <<>>
  /\ change_loop = [pc |-> "none", event |-> NoEvent]
  /\ loop_manager = FreshManager
  /\ handler = [state |-> "new", channel |-> 0]
  /\ arrived = <<>>
  /\ started = <<>>
  /\ snapshotted = {}
  /\ finished = <<>>
  /\ pipeLast = [op |-> None]

\* enable_hot_reload, the channel and the task: a new channel is made, the
\* loop is spawned on manager_clone and waits in receiver.recv()
SpawnChangeHandler ==
  /\ change_queue' = <<>>
  /\ change_loop' = [pc |-> "recv", event |-> NoEvent]
  /\ loop_manager' = clone_for_event_handling
  /\ arrived' = <<>>
  /\ started' = <<>>
  /\ snapshotted' = {}
  /\ finished' = <<>>
  /\ pipeLast' = [op |-> "spawn"]
  /\ UNCHANGED handler

\* disable_hot_reload, handle.abort(): the loop task is dropped at the await
\* it is suspended in, and with it its receiver, the queued events and
\* manager_clone
AbortChangeHandler ==
  /\ change_queue' = <<>>
  /\ change_loop' = [pc |-> "none", event |-> NoEvent]
  /\ loop_manager' = FreshManager
  /\ pipeLast' = [op |-> "abort", pc |-> change_loop.pc, event |-> change_loop.event,
                  queued |-> Len(change_queue)]
  /\ UNCHANGED <<handler, arrived, started, snapshotted, finished>>

\* (mutation of enable_hot_reload: no early return when already enabled)
enable_hot_reload_Again(watcher_ok) ==
  /\ SnapshotFits
  /\ hot_reload_enabled' = TRUE
  /\ config_history' = create_config_snapshot(config_history, "Initial configuration snapshot")
  /\ change_handler_task' = TRUE
  /\ SpawnChangeHandler
  /\ is_watching' = (is_watching \/ watcher_ok)
  /\ cfgLast' = [op |-> "enable_hot_reload", was_enabled |-> hot_reload_enabled,
                 result |-> IF is_watching \/ watcher_ok THEN "Ok" ELSE "ReloadError"]
  /\ UNCHANGED <<disk, providers, config_cache, cache_enabled, max_history_size,
                 event_handler>>

\* enable_hot_reload(watcher): when not yet enabled, set the flag, take the
\* initial snapshot, spawn the event loop, then start the watcher;
\* watcher_ok tells whether start_watching can create the file watcher
enable_hot_reload(watcher_ok) ==
  IF hot_reload_enabled
  THEN /\ cfgLast' = [op |-> "enable_hot_reload", was_enabled |-> TRUE, result |-> "Ok"]
       /\ UNCHANGED <<disk, providers, config_cache, cache_enabled, hot_reload_enabled,
                      config_history, max_history_size, event_handler, is_watching,
                      change_handler_task>>
       /\ UNCHANGED pipeVars
  ELSE /\ SnapshotFits
       /\ hot_reload_enabled' = TRUE
       /\ config_history' = create_config_snapshot(config_history, "Initial configuration snapshot")
       /\ change_handler_task' = TRUE
       /\ SpawnChangeHandler
       /\ is_watching' = (is_watching \/ watcher_ok)
       /\ cfgLast' = [op |-> "enable_hot_reload", was_enabled |-> FALSE,
                      result |-> IF is_watching \/ watcher_ok THEN "Ok" ELSE "ReloadError"]
       /\ UNCHANGED <<disk, providers, config_cache, cache_enabled, max_history_size,
                      event_handler>>

\* (mutation of disable_hot_reload: the event loop's handle is dropped, not aborted)
disable_hot_reload_NoAbort ==
  IF ~hot_reload_enabled
  THEN /\ cfgLast' = [op |-> "disable_hot_reload", was_enabled |-> FALSE, result |-> "Ok"]
       /\ UNCHANGED <<disk, providers, config_cache, cache_enabled, hot_reload_enabled,
                      config_history, max_history_size, event_handler, is_watching,
                      change_handler_task>>
       /\ UNCHANGED pipeVars
  ELSE /\ is_watching' = FALSE
       /\ hot_reload_enabled' = FALSE
       /\ cfgLast' = [op |-> "disable_hot_reload", was_enabled |-> TRUE, result |-> "Ok"]
       /\ UNCHANGED <<disk, providers, config_cache, cache_enabled, config_history,
                      max_history_size, event_handler, change_handler_task>>
       /\ UNCHANGED pipeVars

\* disable_hot_reload(): when enabled, stop the watcher, abort the event loop
\* and clear the flag
disable_hot_reload ==
  IF ~hot_reload_enabled
  THEN /\ cfgLast' = [op |-> "disable_hot_reload", was_enabled |-> FALSE, result |-> "Ok"]
       /\ UNCHANGED <<disk, providers, config_cache, cache_enabled, hot_reload_enabled,
                      config_history, max_history_size, event_handler, is_watching,
                      change_handler_task>>
       /\ UNCHANGED pipeVars
  ELSE /\ is_watching' = FALSE
       /\ change_handler_task' = FALSE
       /\ AbortChangeHandler
       /\ hot_reload_enabled' = FALSE
       /\ cfgLast' = [op |-> "disable_hot_reload", was_enabled |-> TRUE, result |-> "Ok"]
       /\ UNCHANGED <<disk, providers, config_cache, cache_enabled, config_history,
                      max_history_size, event_handler>>

\* validate_configuration(): the result starts as ValidationResult::success()
\* and no rule is applied to it
validate_configuration == [is_valid |-> TRUE]

\* the cache after reload_all_providers(): cleared, whatever cache_enabled
\* is; the providers are not reloaded
reload_all_providers == <<>>

\* the event types whose handler calls reload_all_providers()
ReloadingEventTypes == {"Created", "Updated", "Deleted", "Reloaded", "SourceConnectionRestored"}

\* the value get_configuration(key) would return now (None if KeyNotFound)
LiveKeys ==
  {k \in Keys : (cache_enabled /\ k \in DOMAIN config_cache) \/ FirstProviderWith(k) # 0}

LiveConfiguration ==
  [k \in LiveKeys |-> IF cache_enabled /\ k \in DOMAIN config_cache
                      THEN config_cache[k]
                      ELSE providers[FirstProviderWith(k)].config[k]]

\* set_event_handler(handler)
set_event_handler ==
  /\ event_handler' = TRUE
  /\ cfgLast' = [op |-> "set_event_handler", result |-> "Ok"]
  /\ UNCHANGED <<disk, providers, config_cache, cache_enabled, hot_reload_enabled,
                 config_history, max_history_size, is_watching, change_handler_task>>

\* send_event_to_handler(event): the events handed to the ConfigEventHandler so
\* far, `sent`, followed by `event` if a handler is set
send_event_to_handler(sent, event) == IF event_handler THEN Append(sent, event) ELSE sent

\* ConfigChangeEvent::created("validation_failed:<path>", ..), the event the
\* failed validation sends
ValidationFailedEvent(event) ==
  [event_type |-> "Created", path |-> <<"validation_failed", event.path>>]

\* handle_config_change_event(event), called by the event loop that
\* enable_hot_reload starts: notify, snapshot, dispatch on the event type,
\* validate, roll back when the validation fails
handle_config_change_event(event) ==
  /\ change_handler_task
  /\ SnapshotFits
  /\ LET notified == send_event_to_handler(<<>>, event)
         history == create_config_snapshot(config_history, "Before applying change")
         applied == IF event.event_type \in ReloadingEventTypes
                    THEN reload_all_providers ELSE config_cache
     IN /\ config_history' = history
        /\ IF validate_configuration.is_valid
           THEN /\ config_cache' = applied
                /\ cfgLast' = [op |-> "handle_config_change_event", event |-> event,
                               result |-> "Ok", before |-> LiveConfiguration,
                               sent |-> notified]
           ELSE IF Len(history) < 2
           THEN /\ config_cache' = applied
                /\ cfgLast' = [op |-> "handle_config_change_event", event |-> event,
                               result |-> "NoRollbackAvailable", before |-> LiveConfiguration,
                               sent |-> send_event_to_handler(notified, ValidationFailedEvent(event))]
           ELSE /\ config_cache' = history[Len(history) - 1].config_data
                /\ cfgLast' = [op |-> "handle_config_change_event", event |-> event,
                               result |-> "ValidationFailed", before |-> LiveConfiguration,
                               sent |-> send_event_to_handler(notified, ValidationFailedEvent(event))]
  /\ UNCHANGED <<disk, providers, cache_enabled, hot_reload_enabled, max_history_size,
                 event_handler, is_watching, change_handler_task>>

\* (mutation of rollback_last_change: a history of one snapshot is enough)
rollback_last_change_OneIsEnough ==
  /\ IF Len(config_history) < 1
     THEN /\ cfgLast' = [op |-> "rollback_last_change", result |-> "NoRollbackAvailable",
                         history_len |-> Len(config_history)]
          /\ UNCHANGED config_cache
     ELSE /\ config_cache' = config_history[IF Len(config_history) < 2 THEN 1
                                            ELSE Len(config_history) - 1].config_data
          /\ cfgLast' = [op |-> "rollback_last_change", result |-> "Ok",
                         history_len |-> Len(config_history)]
  /\ UNCHANGED <<disk, providers, cache_enabled, hot_reload_enabled, config_history,
                 max_history_size, event_handler, is_watching, change_handler_task>>

rollback_last_change ==
  /\ IF Len(config_history) < 2
     THEN /\ cfgLast' = [op |-> "rollback_last_change", result |-> "NoRollbackAvailable",
                         history_len |-> Len(config_history)]
          /\ UNCHANGED config_cache
     ELSE /\ config_cache' = config_history[Len(config_history) - 1].config_data
          /\ cfgLast' = [op |-> "rollback_last_change", result |-> "Ok",
                         history_len |-> Len(config_history)]
  /\ UNCHANGED <<disk, providers, cache_enabled, hot_reload_enabled, config_history,
                 max_history_size, event_handler, is_watching, change_handler_task>>

rollback_to_version(version) ==
  LET found == {i \in 1..Len(config_history) : config_history[i].version = version}
  IN /\ IF found = {}
        THEN /\ cfgLast' = [op |-> "rollback_to_version", version |-> version,
                            result |-> "VersionNotFound"]
             /\ UNCHANGED config_cache
        ELSE /\ config_cache' =
                  config_history[CHOOSE i \in found : \A j \in found : i <= j].config_data
             /\ cfgLast' = [op |-> "rollback_to_version", version |-> version,
                            result |-> "Ok"]
     /\ UNCHANGED <<disk, providers, cache_enabled, hot_reload_enabled, config_history,
                    max_history_size, event_handler, is_watching, change_handler_task>>

clear_config_history ==
  /\ config_history' = <<>>
  /\ cfgLast' = [op |-> "clear_config_history", result |-> "Ok"]
  /\ UNCHANGED <<disk, providers, config_cache, cache_enabled, hot_reload_enabled,
                 max_history_size, event_handler, is_watching, change_handler_task>>

set_max_history_size(size) ==
  /\ max_history_size' = size
  /\ cfgLast' = [op |-> "set_max_history_size", size |-> size]
  /\ UNCHANGED <<disk, providers, config_cache, cache_enabled, hot_reload_enabled,
                 config_history, event_handler, is_watching, change_handler_task>>

NextConfig ==
  \/ \E n \in ReloadProviderNames, c \in ReloadContents :
       WriteFile(n, c) /\ UNCHANGED <<watcherVars, scopeVars, graphVars, diVars, infraVars, resolveVars, pipeVars>>
  \/ \E n \in ReloadProviderNames :
       register_provider(n, TomlDefaultPriority) /\ UNCHANGED <<watcherVars, scopeVars, graphVars, diVars, infraVars, resolveVars, pipeVars>>
  \/ \E n \in ReloadProviderNames : unregister_provider(n) /\ UNCHANGED <<watcherVars, scopeVars, graphVars, diVars, infraVars, resolveVars, pipeVars>>
  \/ \E k \in Keys : get_configuration(k) /\ UNCHANGED <<watcherVars, scopeVars, graphVars, diVars, infraVars, resolveVars, pipeVars>>
  \/ reload_all /\ UNCHANGED <<watcherVars, scopeVars, graphVars, diVars, infraVars, resolveVars, pipeVars>>
  \/ \E b \in BOOLEAN : set_cache_enabled(b) /\ UNCHANGED <<watcherVars, scopeVars, graphVars, diVars, infraVars, resolveVars, pipeVars>>
  \/ \E ok \in BOOLEAN : enable_hot_reload(ok) /\ UNCHANGED <<watcherVars, scopeVars, graphVars, diVars, infraVars, resolveVars>>
  \/ disable_hot_reload /\ UNCHANGED <<watcherVars, scopeVars, graphVars, diVars, infraVars, resolveVars>>
  \/ \E t \in EventTypes, n \in ReloadProviderNames :
       handle_config_change_event([event_type |-> t, path |-> n])
         /\ UNCHANGED <<watcherVars, scopeVars, graphVars, diVars, infraVars, resolveVars, pipeVars>>
  \/ rollback_last_change /\ UNCHANGED <<watcherVars, scopeVars, graphVars, diVars, infraVars, resolveVars, pipeVars>>
  \/ \E v \in 1..MaxHistory : rollback_to_version(v) /\ UNCHANGED <<watcherVars, scopeVars, graphVars, diVars, infraVars, resolveVars, pipeVars>>
  \/ clear_config_history /\ UNCHANGED <<watcherVars, scopeVars, graphVars, diVars, infraVars, resolveVars, pipeVars>>
  \/ set_event_handler /\ UNCHANGED <<watcherVars, scopeVars, graphVars, diVars, infraVars, resolveVars, pipeVars>>

\* the file contents and event types of the hot-reload and history runs: two
\* valid contents, one event type that reloads and one that does not
HistoryContents == {File3, File4}

HistoryEventTypes == {"Updated", "ValidationFailed"}

\* the hot-reload, history and rollback operations of one manager with one
\* file source
NextHistory ==
  \/ \E n \in ReloadProviderNames, c \in HistoryContents :
       WriteFile(n, c) /\ UNCHANGED <<watcherVars, scopeVars, graphVars, diVars, infraVars, resolveVars, pipeVars>>
  \/ \E n \in ReloadProviderNames :
       register_provider(n, TomlDefaultPriority) /\ UNCHANGED <<watcherVars, scopeVars, graphVars, diVars, infraVars, resolveVars, pipeVars>>
  \/ get_configuration(<<"timeout_ms">>) /\ UNCHANGED <<watcherVars, scopeVars, graphVars, diVars, infraVars, resolveVars, pipeVars>>
  \/ \E ok \in BOOLEAN : enable_hot_reload(ok) /\ UNCHANGED <<watcherVars, scopeVars, graphVars, diVars, infraVars, resolveVars>>
  \/ disable_hot_reload /\ UNCHANGED <<watcherVars, scopeVars, graphVars, diVars, infraVars, resolveVars>>
  \/ \E t \in HistoryEventTypes, n \in ReloadProviderNames :
       handle_config_change_event([event_type |-> t, path |-> n])
         /\ UNCHANGED <<watcherVars, scopeVars, graphVars, diVars, infraVars, resolveVars, pipeVars>>
  \/ rollback_last_change /\ UNCHANGED <<watcherVars, scopeVars, graphVars, diVars, infraVars, resolveVars, pipeVars>>
  \/ \E v \in 1..(MaxHistory + 1) : rollback_to_version(v) /\ UNCHANGED <<watcherVars, scopeVars, graphVars, diVars, infraVars, resolveVars, pipeVars>>
  \/ clear_config_history /\ UNCHANGED <<watcherVars, scopeVars, graphVars, diVars, infraVars, resolveVars, pipeVars>>
  \/ \E size \in 1..MaxHistory : set_max_history_size(size) /\ UNCHANGED <<watcherVars, scopeVars, graphVars, diVars, infraVars, resolveVars, pipeVars>>

NextSection ==
  \/ \E n \in ProviderNames, c \in SectionContents :
       WriteFile(n, c) /\ UNCHANGED <<watcherVars, scopeVars, graphVars, diVars, infraVars, resolveVars, pipeVars>>
  \/ \E n \in ProviderNames, pr \in Priorities :
       register_provider(n, pr) /\ UNCHANGED <<watcherVars, scopeVars, graphVars, diVars, infraVars, resolveVars, pipeVars>>
  \/ \E n \in ProviderNames : unregister_provider(n) /\ UNCHANGED <<watcherVars, scopeVars, graphVars, diVars, infraVars, resolveVars, pipeVars>>
  \/ \E sn \in SectionNames : get_section(sn) /\ UNCHANGED <<watcherVars, scopeVars, graphVars, diVars, infraVars, resolveVars, pipeVars>>
  \/ reload_all /\ UNCHANGED <<watcherVars, scopeVars, graphVars, diVars, infraVars, resolveVars, pipeVars>>

NextGet ==
  \/ \E n \in ProviderNames, c \in SectionContents :
       WriteFile(n, c) /\ UNCHANGED <<watcherVars, scopeVars, graphVars, diVars, infraVars, resolveVars, pipeVars>>
  \/ \E n \in ProviderNames, pr \in Priorities :
       register_provider(n, pr) /\ UNCHANGED <<watcherVars, scopeVars, graphVars, diVars, infraVars, resolveVars, pipeVars>>
  \/ \E n \in ProviderNames : unregister_provider(n) /\ UNCHANGED <<watcherVars, scopeVars, graphVars, diVars, infraVars, resolveVars, pipeVars>>
  \/ \E k \in Keys : get_configuration(k) /\ UNCHANGED <<watcherVars, scopeVars, graphVars, diVars, infraVars, resolveVars, pipeVars>>
  \/ reload_all /\ UNCHANGED <<watcherVars, scopeVars, graphVars, diVars, infraVars, resolveVars, pipeVars>>
  \/ \E b \in BOOLEAN : set_cache_enabled(b) /\ UNCHANGED <<watcherVars, scopeVars, graphVars, diVars, infraVars, resolveVars, pipeVars>>

NextDI ==
  \/ \E t \in TypeIds, l \in Lifetimes : register_component(t, l) /\ UNCHANGED <<watcherVars, scopeVars, graphVars, cfgVars, infraVars, resolveVars, pipeVars>>
  \/ \E t \in TypeIds : register_instance(t) /\ UNCHANGED <<watcherVars, scopeVars, graphVars, cfgVars, infraVars, resolveVars, pipeVars>>
  \/ \E t \in TypeIds, f \in Factories, l \in Lifetimes :
       register_factory(t, f, l) /\ UNCHANGED <<watcherVars, scopeVars, graphVars, cfgVars, infraVars, resolveVars, pipeVars>>
  \/ \E t \in TypeIds, ok \in BOOLEAN : resolve(t, ok) /\ UNCHANGED <<watcherVars, scopeVars, graphVars, cfgVars, infraVars, resolveVars, pipeVars>>
  \/ clear /\ UNCHANGED <<watcherVars, scopeVars, graphVars, cfgVars, infraVars, resolveVars, pipeVars>>

\* a container whose identities are registered once each and resolved in scopes
NextScoped ==
  \/ \E t \in TypeIds, f \in Factories, l \in Lifetimes :
       /\ ~is_registered_by_type_id(t)
       /\ register_factory(t, f, l)
       /\ UNCHANGED <<watcherVars, scopeVars, graphVars, cfgVars, infraVars, resolveVars, pipeVars>>
  \/ \E t \in TypeIds, scope \in Scopes, ok \in BOOLEAN :
       resolve_scoped(t, scope, ok) /\ UNCHANGED <<watcherVars, graphVars, cfgVars, infraVars, resolveVars, pipeVars>>

NextGraph ==
  \/ \E t \in TypeInfos : \E deps \in DistinctSeqs(TypeInfos \ {t}, MaxDeps) :
       add_component(t, deps) /\ UNCHANGED <<watcherVars, scopeVars, diVars, cfgVars, infraVars, resolveVars, pipeVars>>
  \/ \E a, b \in TypeInfos, o \in BOOLEAN : add_dependency(a, b, o) /\ UNCHANGED <<watcherVars, scopeVars, diVars, cfgVars, infraVars, resolveVars, pipeVars>>
  \/ topological_sort /\ UNCHANGED <<watcherVars, scopeVars, diVars, cfgVars, infraVars, resolveVars, pipeVars>>
  \/ detect_circular_dependencies /\ UNCHANGED <<watcherVars, scopeVars, diVars, cfgVars, infraVars, resolveVars, pipeVars>>

\* =====================================================================
\* A DependencyGraph built from component metadata made by
\* DiscoveryMetadata::new
\* =====================================================================
\* the identity of the unit type (), ReflectionInfo::of::<()>()
UnitType == "()"

\* DiscoveryMetadata::new(type_info, name, dependencies): the reflection
\* identity is that of the unit type; type_info is not stored
DiscoveryMetadataNew(type_info, name, dependencies) ==
  [reflection |-> UnitType, component_name |-> name, dependencies |-> dependencies]

\* DependencyGraph::add_component(metadata) on the graph g: the node is keyed
\* by the metadata's reflection identity (an insert into a map: a node with
\* that key is replaced), and one required edge is pushed per dependency
AddComponentTo(g, metadata) ==
  [nodes |-> g.nodes \cup {metadata.reflection},
   edges |-> PushDeps(g.edges, metadata.reflection, metadata.dependencies)]

\* the `for metadata in cache.values()` loop of build_dependency_graph
RECURSIVE AddComponents(_, _, _)
AddComponents(g, order, dependencies) ==
  IF order = <<>> THEN g
  ELSE AddComponents(
         AddComponentTo(g, DiscoveryMetadataNew(Head(order), Head(order),
                                                dependencies[Head(order)])),
         Tail(order), dependencies)

\* build_dependency_graph() over the registered components `components`
\* (distinct identities), iterated in the order `order`, each with its
\* dependency list
build_dependency_graph(components, order, dependencies) ==
  LET g == AddComponents([nodes |-> {}, edges |-> <<>>], order, dependencies)
  IN /\ Len(g.edges) <= MaxEdges
     /\ nodes' = g.nodes
     /\ edges' = g.edges
     /\ graphLast' = [op |-> "build_dependency_graph", components |-> components]

\* the dependency lists of the components: each lists other identities
DependencyLists(components) ==
  {d \in [components -> DistinctSeqs(TypeInfos, MaxDeps)] :
     \A c \in components : c \notin Range(d[c])}

NextDiscovery ==
  \/ \E components \in SUBSET TypeInfos :
       \E order \in Orders(components), dependencies \in DependencyLists(components) :
         build_dependency_graph(components, order, dependencies)
           /\ UNCHANGED <<watcherVars, scopeVars, diVars, cfgVars, infraVars, resolveVars, pipeVars>>
  \/ topological_sort /\ UNCHANGED <<watcherVars, scopeVars, diVars, cfgVars, infraVars, resolveVars, pipeVars>>
  \/ detect_circular_dependencies /\ UNCHANGED <<watcherVars, scopeVars, diVars, cfgVars, infraVars, resolveVars, pipeVars>>

\* =====================================================================
\* InfrastructureBuilder, AdSystemInfrastructure, AggregateHealthChecker
\* =====================================================================
MaxCheckers == 2

\* HealthCheckable::timeout() by default, in seconds
DefaultCheckTimeoutSecs == 30

\* InfrastructureHealthChecker::timeout(), in seconds
SelfCheckTimeoutSecs == 5

\* the time limit AdSystemInfrastructure::check_health gives every checker
SweepTimeoutSecs == 30

\* the health checkers given to the builder or to the aggregate checker: what
\* name(), timeout() and is_enabled() return
HealthCheckers ==
  { [name |-> "db", timeout |-> DefaultCheckTimeoutSecs, is_enabled |-> TRUE],
    [name |-> "self", timeout |-> SelfCheckTimeoutSecs, is_enabled |-> TRUE],
    [name |-> "off", timeout |-> DefaultCheckTimeoutSecs, is_enabled |-> FALSE] }

HealthStatusHealthy == [kind |-> "Healthy"]

HealthStatusUnhealthy(error) == [kind |-> "Unhealthy", error |-> error]

\* the message of the status that stands for a check that ran out of time
TimeoutMessage == "health check timed out"

\* one run of checker.check_health(): the seconds it takes and the status
\* it returns when left to finish
CheckDurations == {10, 40}

CheckOutcomes ==
  [duration : CheckDurations, status : {HealthStatusHealthy, HealthStatusUnhealthy("down")}]

\* (mutation of TimedStatus: the time limit is not applied)
TimedStatus_NoLimit(limit, outcome) == outcome.status

\* tokio::time::timeout(limit, checker.check_health()): the checker's status
\* when it finishes within the limit, the timeout status otherwise
TimedStatus(limit, outcome) ==
  IF outcome.duration > limit THEN HealthStatusUnhealthy(TimeoutMessage) ELSE outcome.status

\* the state before InfrastructureBuilder::build(): no instance, and an
\* AggregateHealthChecker::new()
AdSystemInfrastructureNone ==
  /\ status = None
  /\ health_checkers = <<>>
  /\ start_pc = "idle"
  /\ stop_pc = "idle"
  /\ checkers = <<>>
  /\ infraLast = [op |-> None]

\* the providers of a manager on which register_provider was called for each
\* of `sources` in order
RECURSIVE RegisterAll(_)
RegisterAll(sources) ==
  IF sources = <<>> THEN <<>>
  ELSE SortByPriority(Append(RegisterAll(SubSeq(sources, 1, Len(sources) - 1)),
                             ProviderNew(sources[Len(sources)], TomlDefaultPriority)))

\* InfrastructureBuilder::build() with config_sources `sources`, health_checks
\* `health_checks` and hot_reload_enabled `hot_reload`; watcher_ok tells
\* whether start_watching() can create the file watcher. build creates its own
\* manager, registers the sources, enables hot reload if asked, validates,
\* and returns the instance (status Initialized). When enable_hot_reload
\* returns Err, build returns BootstrapFailed and the manager is dropped: its
\* watcher with it, and the event loop ends as the channel's senders are gone.
build(sources, health_checks, hot_reload, watcher_ok) ==
  /\ status = None
  /\ cache_enabled' = TRUE
  /\ config_cache' = <<>>
  /\ max_history_size' = DefaultMaxHistorySize
  /\ event_handler' = FALSE
  /\ UNCHANGED <<disk, start_pc, stop_pc, checkers>>
  /\ IF hot_reload /\ ~watcher_ok
     THEN /\ providers' = <<>>
          /\ hot_reload_enabled' = FALSE
          /\ config_history' = <<>>
          /\ is_watching' = FALSE
          /\ change_handler_task' = FALSE
          /\ cfgLast' = [op |-> None]
          /\ infraLast' = [op |-> "build", result |-> "BootstrapFailed"]
          /\ UNCHANGED <<status, health_checkers>>
          /\ UNCHANGED pipeVars
     ELSE /\ providers' = RegisterAll(sources)
          /\ hot_reload_enabled' = hot_reload
          /\ config_history' =
               IF hot_reload
               THEN <<[config_data |-> <<>>, version |-> 1,
                       description |-> "Initial configuration snapshot"]>>
               ELSE <<>>
          /\ is_watching' = hot_reload
          /\ change_handler_task' = hot_reload
          /\ cfgLast' = IF hot_reload
                        THEN [op |-> "enable_hot_reload", was_enabled |-> FALSE, result |-> "Ok"]
                        ELSE IF sources # <<>>
                        THEN [op |-> "register_provider", result |-> "Ok"]
                        ELSE [op |-> None]
          /\ status' = "Initialized"
          /\ health_checkers' = health_checks
          /\ infraLast' = [op |-> "build", result |-> "Ok"]
          /\ IF hot_reload THEN SpawnChangeHandler ELSE UNCHANGED pipeVars

\* what validate_configuration() and container.validate() hand to start():
\* Ok or Err. (The implementations of this repository return Ok on every
\* call; Err is the other value of their signatures.)
ValidationResults == {"Ok", "Err"}

\* start(), first part: the status becomes Starting
start_begin ==
  /\ status # None
  /\ start_pc = "idle"
  /\ status' = "Starting"
  /\ start_pc' = "validate_configuration"
  /\ infraLast' = [op |-> "start", step |-> "begin", from |-> status, result |-> "Pending"]
  /\ UNCHANGED <<health_checkers, stop_pc, checkers>>

\* start(), second part: config_manager.validate_configuration() returned `result`
start_validate_configuration(result) ==
  /\ start_pc = "validate_configuration"
  /\ IF result = "Err"
     THEN /\ status' = "Failed"
          /\ start_pc' = "idle"
          /\ infraLast' = [op |-> "start", step |-> "validate_configuration",
                           input |-> result, result |-> "BootstrapFailed"]
     ELSE /\ start_pc' = "validate"
          /\ infraLast' = [op |-> "start", step |-> "validate_configuration",
                           input |-> result, result |-> "Pending"]
          /\ UNCHANGED status
  /\ UNCHANGED <<health_checkers, stop_pc, checkers>>

\* (mutation of start_validate: the status becomes Running whatever the result)
start_validate_AlwaysRunning(result) ==
  /\ start_pc = "validate"
  /\ start_pc' = "idle"
  /\ status' = "Running"
  /\ infraLast' = [op |-> "start", step |-> "validate", input |-> result,
                   result |-> IF result = "Err" THEN "DependencyError" ELSE "Ok"]
  /\ UNCHANGED <<health_checkers, stop_pc, checkers>>

\* start(), last part: container.validate() returned `result`
start_validate(result) ==
  /\ start_pc = "validate"
  /\ start_pc' = "idle"
  /\ IF result = "Err"
     THEN /\ status' = "Failed"
          /\ infraLast' = [op |-> "start", step |-> "validate", input |-> result,
                           result |-> "DependencyError"]
     ELSE /\ status' = "Running"
          /\ infraLast' = [op |-> "start", step |-> "validate", input |-> result,
                           result |-> "Ok"]
  /\ UNCHANGED <<health_checkers, stop_pc, checkers>>

\* stop(), first part: the status becomes Stopping
stop_begin ==
  /\ status # None
  /\ stop_pc = "idle"
  /\ status' = "Stopping"
  /\ stop_pc' = "stopping"
  /\ infraLast' = [op |-> "stop", step |-> "begin", result |-> "Pending"]
  /\ UNCHANGED <<health_checkers, start_pc, checkers>>

\* stop(), last part: the status becomes Stopped; nothing else is touched
stop_finish ==
  /\ stop_pc = "stopping"
  /\ status' = "Stopped"
  /\ stop_pc' = "idle"
  /\ infraLast' = [op |-> "stop", step |-> "finish", result |-> "Ok"]
  /\ UNCHANGED <<health_checkers, start_pc, checkers>>

\* AdSystemInfrastructure::check_health(): every checker in turn, each under
\* the sweep's own limit; outcomes[i] is the run of the i-th checker
check_health(outcomes) ==
  /\ status # None
  /\ infraLast' =
       [op |-> "check_health", checkers |-> health_checkers, outcomes |-> outcomes,
        results |-> [i \in 1..Len(health_checkers) |->
                       [name |-> health_checkers[i].name,
                        status |-> TimedStatus(SweepTimeoutSecs, outcomes[i])]]]
  /\ UNCHANGED <<status, health_checkers, start_pc, stop_pc, checkers>>

\* AggregateHealthChecker::add_checker(checker)
add_checker(checker) ==
  /\ Len(checkers) < MaxCheckers
  /\ checkers' = Append(checkers, checker)
  /\ infraLast' = [op |-> "add_checker"]
  /\ UNCHANGED <<status, health_checkers, start_pc, stop_pc>>

\* the indexes of the checkers of `cs` that are enabled, in order
EnabledIndexes(cs) ==
  SelectSeq([i \in 1..Len(cs) |-> i], LAMBDA i : cs[i].is_enabled)

\* AggregateHealthChecker::check_all(): every enabled checker in turn, each
\* under its own timeout(); outcomes[i] is the run of the i-th checker
check_all(outcomes) ==
  /\ infraLast' =
       [op |-> "check_all", checkers |-> checkers, outcomes |-> outcomes,
        results |-> [k \in 1..Len(EnabledIndexes(checkers)) |->
                       LET i == EnabledIndexes(checkers)[k]
                       IN [name |-> checkers[i].name,
                           status |-> TimedStatus(checkers[i].timeout, outcomes[i])]]]
  /\ UNCHANGED <<status, health_checkers, start_pc, stop_pc, checkers>>

NextInfra ==
  \/ \E sources \in DistinctSeqs(ReloadProviderNames, 1),
        health_checks \in DistinctSeqs(HealthCheckers, MaxCheckers),
        hot_reload \in BOOLEAN, watcher_ok \in BOOLEAN :
       build(sources, health_checks, hot_reload, watcher_ok) /\ UNCHANGED <<watcherVars, scopeVars, graphVars, diVars, resolveVars>>
  \/ start_begin /\ UNCHANGED <<watcherVars, scopeVars, graphVars, diVars, cfgVars, resolveVars, pipeVars>>
  \/ \E result \in ValidationResults :
       start_validate_configuration(result) /\ UNCHANGED <<watcherVars, scopeVars, graphVars, diVars, cfgVars, resolveVars, pipeVars>>
  \/ \E result \in ValidationResults :
       start_validate(result) /\ UNCHANGED <<watcherVars, scopeVars, graphVars, diVars, cfgVars, resolveVars, pipeVars>>
  \/ stop_begin /\ UNCHANGED <<watcherVars, scopeVars, graphVars, diVars, cfgVars, resolveVars, pipeVars>>
  \/ stop_finish /\ UNCHANGED <<watcherVars, scopeVars, graphVars, diVars, cfgVars, resolveVars, pipeVars>>

\* the start-up of an instance built without configuration sources, beside
\* the dependency graph of the discovered components; no step of build() or
\* start() reads the graph
NextStartup ==
  \/ \E t \in TypeInfos : \E deps \in DistinctSeqs(TypeInfos \ {t}, MaxDeps) :
       add_component(t, deps) /\ UNCHANGED <<watcherVars, scopeVars, diVars, cfgVars, infraVars, resolveVars, pipeVars>>
  \/ build(<<>>, <<>>, FALSE, FALSE) /\ UNCHANGED <<watcherVars, scopeVars, graphVars, diVars, resolveVars>>
  \/ start_begin /\ UNCHANGED <<watcherVars, scopeVars, graphVars, diVars, cfgVars, resolveVars, pipeVars>>
  \/ \E result \in ValidationResults :
       start_validate_configuration(result) /\ UNCHANGED <<watcherVars, scopeVars, graphVars, diVars, cfgVars, resolveVars, pipeVars>>
  \/ \E result \in ValidationResults :
       start_validate(result) /\ UNCHANGED <<watcherVars, scopeVars, graphVars, diVars, cfgVars, resolveVars, pipeVars>>

\* the health sweeps of an instance built without configuration sources, and
\* of an aggregate checker
NextHealth ==
  \/ \E health_checks \in DistinctSeqs(HealthCheckers, MaxCheckers) :
       build(<<>>, health_checks, FALSE, FALSE) /\ UNCHANGED <<watcherVars, scopeVars, graphVars, diVars, resolveVars>>
  \/ \E outcomes \in [1..Len(health_checkers) -> CheckOutcomes] :
       check_health(outcomes) /\ UNCHANGED <<watcherVars, scopeVars, graphVars, diVars, cfgVars, resolveVars, pipeVars>>
  \/ \E checker \in HealthCheckers :
       add_checker(checker) /\ UNCHANGED <<watcherVars, scopeVars, graphVars, diVars, cfgVars, resolveVars, pipeVars>>
  \/ \E outcomes \in [1..Len(checkers) -> CheckOutcomes] :
       check_all(outcomes) /\ UNCHANGED <<watcherVars, scopeVars, graphVars, diVars, cfgVars, resolveVars, pipeVars>>

\* =====================================================================
\* DiContainerImpl::resolve, step by step, called by concurrent tasks
\* =====================================================================
\* the tasks that call resolve() on the shared container
Tasks == {"r1", "r2"}

\* the deepest stack of nested resolve() calls that is explored
MaxDepth == 2

\* the identity a factory asks the container for while it runs (None: the
\* factory builds its component without the container)
FactoryRequests(factory) == IF factory = "f2" THEN "T1" ELSE None

NoRegistration == ComponentRegistration(None, None, None)

NoInstance == [ptr |-> -1, via |-> None, lifetime |-> None]

\* a resolve::<T>() call that has just been entered
ResolveFrame(t) ==
  [id |-> t, pc |-> "singletons", registration |-> NoRegistration,
   instance |-> NoInstance, got |-> FALSE,
   started_cached |-> HashMapContainsKey(singletons, t)]

ResolveCallsNone ==
  /\ resolving = [k \in Tasks |-> <<>>]
  /\ registrations_readers = [k \in Tasks |-> 0]
  /\ resolved = [k \in Tasks |-> [result |-> None]]

Top(k) == resolving[k][Len(resolving[k])]

\* the stack of task k with its innermost call replaced by frame
WithTop(k, frame) == [resolving[k] EXCEPT ![Len(resolving[k])] = frame]

\* the innermost call of task k returns `result` (with `instance` when Ok):
\* the read guards the call holds are dropped; a nested call hands its result
\* to the factory that made it, the outermost call to the task
Return(k, result, instance, guards) ==
  LET frame == Top(k)
      rest == SubSeq(resolving[k], 1, Len(resolving[k]) - 1)
  IN /\ registrations_readers' = [registrations_readers EXCEPT ![k] = @ - guards]
     /\ IF rest = <<>>
        THEN /\ resolving' = [resolving EXCEPT ![k] = <<>>]
             /\ resolved' = [resolved EXCEPT ![k] =
                               [result |-> result, id |-> frame.id, instance |-> instance,
                                started_cached |-> frame.started_cached,
                                lifetime |-> frame.registration.lifetime]]
        ELSE /\ resolving' = [resolving EXCEPT ![k] =
                                [rest EXCEPT ![Len(rest)] =
                                   [rest[Len(rest)] EXCEPT !.got = (result = "Ok")]]]
             /\ UNCHANGED resolved

\* task k calls resolve::<t>()
resolve_begin(k, t) ==
  /\ resolving[k] = <<>>
  /\ resolving' = [resolving EXCEPT ![k] = <<ResolveFrame(t)>>]
  /\ UNCHANGED <<registrations, singletons, nextPtr, handles, diLast,
                 registrations_readers, resolved>>

\* the singleton cache is read: a cached instance is returned at once
resolve_singletons(k) ==
  /\ resolving[k] # <<>>
  /\ Top(k).pc = "singletons"
  /\ IF HashMapContainsKey(singletons, Top(k).id)
     THEN Return(k, "Ok", HashMapGet(singletons, Top(k).id), 0)
     ELSE /\ resolving' = [resolving EXCEPT ![k] = WithTop(k, [Top(k) EXCEPT !.pc = "registrations"])]
          /\ UNCHANGED <<registrations_readers, resolved>>
  /\ UNCHANGED <<registrations, singletons, nextPtr, handles, diLast>>

\* `let registrations = self.registrations.read().await`: the read guard is
\* taken and lives until the call returns; the registration is looked up
resolve_registrations(k) ==
  /\ resolving[k] # <<>>
  /\ Top(k).pc = "registrations"
  /\ IF HashMapContainsKey(registrations, Top(k).id)
     THEN LET registration == HashMapGet(registrations, Top(k).id) IN
          IF registration.factory # None
          THEN /\ resolving' = [resolving EXCEPT ![k] =
                                  WithTop(k, [Top(k) EXCEPT !.pc = "factory",
                                                            !.registration = registration])]
               /\ registrations_readers' = [registrations_readers EXCEPT ![k] = @ + 1]
               /\ UNCHANGED resolved
          ELSE IF registration.singleton # None
          THEN Return(k, "Ok", registration.singleton, 0)
          ELSE Return(k, "ComponentCreationFailed", NoInstance, 0)
     ELSE Return(k, "ComponentNotRegistered", NoInstance, 0)
  /\ UNCHANGED <<registrations, singletons, nextPtr, handles, diLast>>

\* the factory of the innermost call, while it runs, calls resolve::<d>() on
\* the container for the identity d it needs
factory_resolve(k) ==
  /\ resolving[k] # <<>>
  /\ Top(k).pc = "factory"
  /\ ~Top(k).got
  /\ FactoryRequests(Top(k).registration.factory) # None
  /\ Len(resolving[k]) < MaxDepth
  /\ resolving' = [resolving EXCEPT ![k] =
                     Append(@, ResolveFrame(FactoryRequests(Top(k).registration.factory)))]
  /\ UNCHANGED <<registrations, singletons, nextPtr, handles, diLast,
                 registrations_readers, resolved>>

\* the factory of the innermost call returns: Ok(instance) if factoryOk,
\* an error otherwise. A factory that needs another component returns Ok
\* only after it got it.
factory_return(k, factoryOk) ==
  /\ resolving[k] # <<>>
  /\ Top(k).pc = "factory"
  /\ factoryOk => (FactoryRequests(Top(k).registration.factory) = None \/ Top(k).got)
  /\ IF factoryOk
     THEN /\ nextPtr < MaxInstances
          /\ nextPtr' = nextPtr + 1
          /\ LET instance == ArcNew(Top(k).registration.factory, Top(k).registration.lifetime) IN
             IF Top(k).registration.lifetime = "Singleton"
             THEN /\ resolving' = [resolving EXCEPT ![k] =
                                     WithTop(k, [Top(k) EXCEPT !.pc = "insert",
                                                               !.instance = instance])]
                  /\ UNCHANGED <<registrations_readers, resolved>>
             ELSE Return(k, "Ok", instance, 1)
     ELSE /\ Return(k, "ComponentCreationFailed", NoInstance, 1)
          /\ UNCHANGED nextPtr
  /\ UNCHANGED <<registrations, singletons, handles, diLast>>

\* `self.singletons.write().await` then insert: the created instance is
\* cached, and the call returns it
resolve_insert(k) ==
  /\ resolving[k] # <<>>
  /\ Top(k).pc = "insert"
  /\ singletons' = CacheCreated(singletons, Top(k).id, Top(k).registration, Top(k).instance)
  /\ Return(k, "Ok", Top(k).instance, 1)
  /\ UNCHANGED <<registrations, nextPtr, handles, diLast>>

\* resolve() takes &self and the register methods &mut self: a registration
\* is made only while no resolve() call is in progress
NoResolveInProgress == \A k \in Tasks : resolving[k] = <<>>

NextResolve ==
  \/ \E t \in TypeIds, f \in Factories, l \in {"Singleton", "Transient"} :
       /\ NoResolveInProgress
       /\ register_factory(t, f, l)
       /\ UNCHANGED <<watcherVars, scopeVars, graphVars, cfgVars, infraVars, resolveVars, pipeVars>>
  \/ \E k \in Tasks, t \in TypeIds :
       resolve_begin(k, t) /\ UNCHANGED <<watcherVars, scopeVars, graphVars, cfgVars, infraVars, pipeVars>>
  \/ \E k \in Tasks : resolve_singletons(k) /\ UNCHANGED <<watcherVars, scopeVars, graphVars, cfgVars, infraVars, pipeVars>>
  \/ \E k \in Tasks : resolve_registrations(k) /\ UNCHANGED <<watcherVars, scopeVars, graphVars, cfgVars, infraVars, pipeVars>>
  \/ \E k \in Tasks : factory_resolve(k) /\ UNCHANGED <<watcherVars, scopeVars, graphVars, cfgVars, infraVars, pipeVars>>
  \/ \E k \in Tasks, ok \in BOOLEAN :
       factory_return(k, ok) /\ UNCHANGED <<watcherVars, scopeVars, graphVars, cfgVars, infraVars, pipeVars>>
  \/ \E k \in Tasks : resolve_insert(k) /\ UNCHANGED <<watcherVars, scopeVars, graphVars, cfgVars, infraVars, pipeVars>>

\* =====================================================================
\* The hot-reload pipeline: watcher callback, queue, consumption loop,
\* ConfigEventHandler
\* =====================================================================
pipeGhosts == <<arrived, started, snapshotted, finished>>

\* the capacity of the ConfigEventHandler's channel (mpsc::channel(1000) in
\* the source, explored with a small capacity)
HandlerChannelCapacity == 1

\* the event types put on the queue: one whose handler reloads, one whose
\* handler does not
PipelineEventTypes == {"Reloaded", "ValidationFailed"}

\* the kinds of notify events handle_file_event maps to a ConfigChangeEvent
FileEventKinds == {"Create", "Modify", "Remove"}

\* handle_file_event: the type of the ConfigChangeEvent made for a notify
\* event of kind `kind`
ConfigChangeEventTypeOf(kind) ==
  IF kind = "Create" THEN "Created" ELSE IF kind = "Modify" THEN "Reloaded" ELSE "Deleted"

\* the notify callback installed by start_watching runs for a filesystem
\* event on a watched path: it logs the event, and nothing else
fs_event(kind) ==
  /\ is_watching
  /\ pipeLast' = [op |-> "fs_event", kind |-> kind]
  /\ UNCHANGED <<change_queue, change_loop, loop_manager, handler, pipeGhosts>>
  /\ UNCHANGED cfgVars

\* an event is sent on the queue through change_sender
enqueue(event_type) ==
  /\ hot_reload_enabled
  /\ Len(change_queue) < ChangeQueueCapacity
  /\ Len(arrived) < MaxEvents
  /\ LET event == [event_type |-> event_type, path |-> "P1", seq |-> Len(arrived) + 1]
     IN /\ change_queue' = Append(change_queue, event)
        /\ arrived' = Append(arrived, event.seq)
        /\ pipeLast' = [op |-> "enqueue", event |-> event]
  /\ UNCHANGED <<change_loop, loop_manager, handler, started, snapshotted, finished>>
  /\ UNCHANGED cfgVars

\* ConfigEventHandler::start(): the receiver is moved into the dispatch task
handler_start ==
  /\ handler.state = "new"
  /\ handler' = [handler EXCEPT !.state = "running"]
  /\ pipeLast' = [op |-> "handler_start"]
  /\ UNCHANGED <<change_queue, change_loop, loop_manager, pipeGhosts>>
  /\ UNCHANGED cfgVars

\* ConfigEventHandler::stop(): the dispatch task is aborted, and its receiver
\* and the events in the channel are dropped with it
handler_stop ==
  /\ handler.state = "running"
  /\ handler' = [state |-> "stopped", channel |-> 0]
  /\ pipeLast' = [op |-> "handler_stop"]
  /\ UNCHANGED <<change_queue, change_loop, loop_manager, pipeGhosts>>
  /\ UNCHANGED cfgVars

\* ConfigEventHandler::send_event(event) called by a user of the handler:
\* the send completes when the channel has room
send_event ==
  /\ handler.state # "stopped"
  /\ handler.channel < HandlerChannelCapacity
  /\ handler' = [handler EXCEPT !.channel = @ + 1]
  /\ pipeLast' = [op |-> "send_event"]
  /\ UNCHANGED <<change_queue, change_loop, loop_manager, pipeGhosts>>
  /\ UNCHANGED cfgVars

\* the dispatch task takes an event off the channel and calls the listeners
dispatch_event ==
  /\ handler.state = "running"
  /\ handler.channel > 0
  /\ handler' = [handler EXCEPT !.channel = @ - 1]
  /\ pipeLast' = [op |-> "dispatch_event"]
  /\ UNCHANGED <<change_queue, change_loop, loop_manager, pipeGhosts>>
  /\ UNCHANGED cfgVars

\* (mutation of recv: the newest event of the queue is taken)
recv_Newest(queue) ==
  [event |-> queue[Len(queue)], rest |-> SubSeq(queue, 1, Len(queue) - 1)]

\* receiver.recv(): the oldest event of the queue, and the queue without it
recv(queue) == [event |-> Head(queue), rest |-> Tail(queue)]

\* the loop takes the next event off the queue and calls
\* handle_config_change_event, which starts with send_event_to_handler: with
\* no handler on the loop's manager it goes straight on to the snapshot; with
\* one, the send fails if the dispatch task was stopped (the error ends the
\* processing of the event), waits while the channel is full, and completes
\* otherwise. A send that was waiting is taken up again by this step.
change_handler_recv ==
  /\ \/ change_loop.pc = "recv" /\ change_queue # <<>>
     \/ /\ change_loop.pc = "forward"
        /\ handler.state = "stopped" \/ handler.channel < HandlerChannelCapacity
  /\ LET taken == change_loop.pc = "recv"
         event == IF taken THEN recv(change_queue).event ELSE change_loop.event
     IN /\ change_queue' = IF taken THEN recv(change_queue).rest ELSE change_queue
        /\ started' = IF taken THEN Append(started, event.seq) ELSE started
        /\ IF ~loop_manager.event_handler
           THEN /\ change_loop' = [pc |-> "snapshot", event |-> event]
                /\ snapshotted' = snapshotted \cup {event.seq}
                /\ UNCHANGED <<handler, finished>>
           ELSE IF handler.state = "stopped"
           THEN /\ change_loop' = [pc |-> "recv", event |-> NoEvent]
                /\ finished' = Append(finished, event.seq)
                /\ UNCHANGED <<handler, snapshotted>>
           ELSE IF handler.channel < HandlerChannelCapacity
           THEN /\ change_loop' = [pc |-> "snapshot", event |-> event]
                /\ handler' = [handler EXCEPT !.channel = @ + 1]
                /\ snapshotted' = snapshotted \cup {event.seq}
                /\ UNCHANGED finished
           ELSE /\ change_loop' = [pc |-> "forward", event |-> event]
                /\ UNCHANGED <<handler, snapshotted, finished>>
        /\ pipeLast' = [op |-> "recv", event |-> event]
  /\ UNCHANGED <<loop_manager, arrived>>
  /\ UNCHANGED cfgVars

\* create_config_snapshot on `manager`: its history after the push and the trim
create_config_snapshot_on(manager, description) ==
  LET snapshot == [config_data |-> manager.config_cache,
                   version |-> Len(manager.config_history) + 1,
                   description |-> description]
      pushed == Append(manager.config_history, snapshot)
  IN IF Len(pushed) > manager.max_history_size THEN Tail(pushed) ELSE pushed

\* the loop's handle_config_change_event, create_config_snapshot: the
\* snapshot is taken of the loop's manager
change_handler_snapshot ==
  /\ change_loop.pc = "snapshot"
  /\ loop_manager' = [loop_manager EXCEPT
                        !.config_history =
                          create_config_snapshot_on(loop_manager, "Before applying change")]
  /\ change_loop' = [change_loop EXCEPT !.pc = "apply"]
  /\ pipeLast' = [op |-> "snapshot", event |-> change_loop.event]
  /\ UNCHANGED <<change_queue, handler, pipeGhosts>>
  /\ UNCHANGED cfgVars

\* the loop's handle_config_change_event, the match on the event type: the
\* reloading types clear the cache of the loop's manager, which has no provider
change_handler_apply ==
  /\ change_loop.pc = "apply"
  /\ loop_manager' = [loop_manager EXCEPT
                        !.config_cache =
                          IF change_loop.event.event_type \in ReloadingEventTypes
                          THEN reload_all_providers ELSE @]
  /\ change_loop' = [change_loop EXCEPT !.pc = "validate"]
  /\ pipeLast' = [op |-> "apply", event |-> change_loop.event]
  /\ UNCHANGED <<change_queue, handler, pipeGhosts>>
  /\ UNCHANGED cfgVars

\* the loop's handle_config_change_event, validate_configuration and what
\* follows: Ok when valid; otherwise the rollback on the loop's manager and
\* Err. The loop logs an Err and goes back to receiver.recv().
change_handler_validate ==
  /\ change_loop.pc = "validate"
  /\ loop_manager' =
       IF validate_configuration.is_valid \/ Len(loop_manager.config_history) < 2
       THEN loop_manager
       ELSE [loop_manager EXCEPT
               !.config_cache =
                 loop_manager.config_history[Len(loop_manager.config_history) - 1].config_data]
  /\ change_loop' = [pc |-> "recv", event |-> NoEvent]
  /\ finished' = Append(finished, change_loop.event.seq)
  /\ pipeLast' = [op |-> "validate", event |-> change_loop.event,
                  result |-> IF validate_configuration.is_valid THEN "Ok" ELSE "ValidationFailed"]
  /\ UNCHANGED <<change_queue, handler, arrived, started, snapshotted>>
  /\ UNCHANGED cfgVars

\* the steps of the consumption loop task
change_handler ==
  \/ change_handler_recv
  \/ change_handler_snapshot
  \/ change_handler_apply
  \/ change_handler_validate

\* =====================================================================
\* ConfigFileWatcher: handle_file_event and the debounce delay
\* =====================================================================
\* the capacity of the watcher's channel, mpsc::channel(1000)
WatcherChannelCapacity == 1000

\* the debounce delay of a new watcher, Duration::from_millis(500)
DefaultDebounceDelayMs == 500

\* the clock advances in steps of TickMs up to MaxTimeMs; at most
\* MaxFileEvents notify events are handled, each naming at most MaxEventPaths paths
TickMs == 250
MaxTimeMs == 750
MaxFileEvents == 2
MaxEventPaths == 2

\* the delays set_debounce_delay is called with, in milliseconds
DebounceDelays == {0, 250, 500}

\* the paths notify events name
WatcherPaths == {[stem |-> "app", extension |-> "toml"],
                 [stem |-> "app", extension |-> "JSON"],
                 [stem |-> "notes", extension |-> "txt"]}

\* the kinds of notify events: the three that are mapped, and one that is not
NotifyEventKinds == FileEventKinds \cup {"Access"}

\* str::eq_ignore_ascii_case on the extensions the paths carry
eq_ignore_ascii_case(a, b) ==
  LET lower(x) == IF x = "JSON" THEN "json" ELSE x IN lower(a) = lower(b)

\* ExtensionFileFilter::config_files().should_watch(path)
should_watch(path) ==
  \E ext \in {"toml", "json", "yaml", "yml", "ini", "cfg"} :
    eq_ignore_ascii_case(ext, path.extension)

\* ConfigFileWatcher::new(): nothing sent, debounce_delay 500 ms
ConfigFileWatcherNew ==
  watcher = [debounce_delay |-> DefaultDebounceDelayMs, change_queue |-> <<>>,
             now |-> 0, handled |-> 0]

\* set_debounce_delay(delay): the delay is stored
set_debounce_delay(delay) ==
  watcher' = [watcher EXCEPT !.debounce_delay = delay]

\* time passes
clock_tick ==
  /\ watcher.now + TickMs <= MaxTimeMs
  /\ watcher' = [watcher EXCEPT !.now = @ + TickMs]

\* the events handle_file_event sends for the paths of one notify event, in
\* order: one per path the filter lets through, when the kind is mapped
RECURSIVE EventsFor(_, _, _)
EventsFor(paths, kind, at) ==
  IF paths = <<>> THEN <<>>
  ELSE LET path == paths[1]
           rest == EventsFor(SubSeq(paths, 2, Len(paths)), kind, at)
       IN IF ~should_watch(path) \/ kind \notin FileEventKinds
          THEN rest
          ELSE <<[event_type |-> ConfigChangeEventTypeOf(kind), path |-> path,
                  at |-> at]>> \o rest

\* handle_file_event(event): every event built is sent on change_sender;
\* neither the time nor debounce_delay is looked at
handle_file_event(event) ==
  LET sent == EventsFor(event.paths, event.kind, watcher.now)
  IN /\ watcher.handled < MaxFileEvents
     /\ Len(watcher.change_queue) + Len(sent) <= WatcherChannelCapacity
     /\ watcher' = [watcher EXCEPT !.change_queue = @ \o sent, !.handled = @ + 1]

NextWatcher ==
  \/ \E delay \in DebounceDelays :
       set_debounce_delay(delay) /\ UNCHANGED <<scopeVars, graphVars, diVars, cfgVars, infraVars, resolveVars, pipeVars>>
  \/ clock_tick /\ UNCHANGED <<scopeVars, graphVars, diVars, cfgVars, infraVars, resolveVars, pipeVars>>
  \/ \E kind \in NotifyEventKinds, paths \in DistinctSeqs(WatcherPaths, MaxEventPaths) :
       /\ paths # <<>>
       /\ handle_file_event([kind |-> kind, paths |-> paths])
       /\ UNCHANGED <<scopeVars, graphVars, diVars, cfgVars, infraVars, resolveVars, pipeVars>>

NextPipeline ==
  \/ \E ok \in BOOLEAN : enable_hot_reload(ok) /\ UNCHANGED <<watcherVars, scopeVars, graphVars, diVars, infraVars, resolveVars>>
  \/ disable_hot_reload /\ UNCHANGED <<watcherVars, scopeVars, graphVars, diVars, infraVars, resolveVars>>
  \/ set_event_handler /\ UNCHANGED <<watcherVars, scopeVars, graphVars, diVars, infraVars, resolveVars, pipeVars>>
  \/ \E kind \in FileEventKinds :
       fs_event(kind) /\ UNCHANGED <<watcherVars, scopeVars, graphVars, diVars, infraVars, resolveVars>>
  \/ \E event_type \in PipelineEventTypes :
       enqueue(event_type) /\ UNCHANGED <<watcherVars, scopeVars, graphVars, diVars, infraVars, resolveVars>>
  \/ handler_start /\ UNCHANGED <<watcherVars, scopeVars, graphVars, diVars, infraVars, resolveVars>>
  \/ handler_stop /\ UNCHANGED <<watcherVars, scopeVars, graphVars, diVars, infraVars, resolveVars>>
  \/ send_event /\ UNCHANGED <<watcherVars, scopeVars, graphVars, diVars, infraVars, resolveVars>>
  \/ dispatch_event /\ UNCHANGED <<watcherVars, scopeVars, graphVars, diVars, infraVars, resolveVars>>
  \/ change_handler_recv /\ UNCHANGED <<watcherVars, scopeVars, graphVars, diVars, infraVars, resolveVars>>
  \/ change_handler_snapshot /\ UNCHANGED <<watcherVars, scopeVars, graphVars, diVars, infraVars, resolveVars>>
  \/ change_handler_apply /\ UNCHANGED <<watcherVars, scopeVars, graphVars, diVars, infraVars, resolveVars>>
  \/ change_handler_validate /\ UNCHANGED <<watcherVars, scopeVars, graphVars, diVars, infraVars, resolveVars>>

Init ==
  /\ DependencyGraphNew
  /\ DiContainerImplNew
  /\ AdSystemConfigManagerNew
  /\ AdSystemInfrastructureNone
  /\ ResolveCallsNone
  /\ ChangePipelineNone
  /\ ScopedHandlesNone
  /\ ConfigFileWatcherNew

SpecGraph == Init /\ [][NextGraph]_vars

SpecDiscovery == Init /\ [][NextDiscovery]_vars

SpecDI == Init /\ [][NextDI]_vars

SpecScoped == Init /\ [][NextScoped]_vars

SpecStartup == Init /\ [][NextStartup]_vars

SpecWatcher == Init /\ [][NextWatcher]_vars

SpecConfig == Init /\ [][NextConfig]_vars

SpecHistory == Init /\ [][NextHistory]_vars

SpecInfra == Init /\ [][NextInfra]_vars

SpecHealth == Init /\ [][NextHealth]_vars

SpecResolve == Init /\ [][NextResolve]_vars

SpecPipeline == Init /\ [][NextPipeline]_vars

\* the loop is a spawned tokio task: the runtime runs it whenever it can take
\* a step
FairPipeline == SpecPipeline /\ WF_vars(change_handler /\ UNCHANGED <<watcherVars, scopeVars, graphVars, diVars, infraVars, resolveVars>>)

SpecSection == Init /\ [][NextSection]_vars

SpecGet == Init /\ [][NextGet]_vars


\* =====================================================================
\* Claims about the DependencyGraph
\* =====================================================================
RequiredPairs(es) ==
  {<<es[i].dependent, es[i].dependency>> : i \in {j \in 1..Len(es) : ~es[j].optional}}

AllPairs(es) == {<<es[i].dependent, es[i].dependency>> : i \in 1..Len(es)}

\* R contains a directed cycle (a closed walk through distinct identities)
HasCycle(R) ==
  \E s \in DistinctSeqs(TypeInfos, Cardinality(TypeInfos)) :
    /\ Len(s) >= 1
    /\ \A i \in 1..Len(s) : <<s[i], s[(i % Len(s)) + 1]>> \in R

IsRotationOf(c, s) ==
  /\ Len(c) = Len(s)
  /\ \E k \in 0..(Len(s) - 1) : \A j \in 1..Len(s) : c[j] = s[((j - 1 + k) % Len(s)) + 1]

CycleABC == {<<"A", "B">>, <<"B", "C">>, <<"C", "A">>}

\* C2: whenever the required edges are acyclic (and every edge joins two
\* components of the graph), topological_sort succeeds,
\* returns every node exactly once, and places each dependency before every
\* component that depends on it.
C2_TopologicalSortOrdersAcyclicGraph ==
  ( /\ graphLast.op = "topological_sort"
    /\ \A p \in AllPairs(edges) : p[1] \in nodes /\ p[2] \in nodes
    /\ ~HasCycle(RequiredPairs(edges)) ) =>
    /\ graphLast.ok
    /\ Len(graphLast.order) = Cardinality(nodes)
    /\ Range(graphLast.order) = nodes
    /\ \A p \in RequiredPairs(edges) :
         (p[1] \in nodes /\ p[2] \in nodes) =>
           PositionOf(graphLast.order, p[2]) < PositionOf(graphLast.order, p[1])

\* C3: whenever the required edges contain a cycle, topological_sort fails
\* with CircularDependency and returns no order.
C3_TopologicalSortRejectsRequiredCycle ==
  (graphLast.op = "topological_sort" /\ HasCycle(RequiredPairs(edges))) => ~graphLast.ok

\* C4: on a graph that contains the cycle A->B->C->A,
\* detect_circular_dependencies fails and its cycle list holds a cycle made of
\* exactly A, B, C in some rotation; on a graph without any cycle it succeeds.
C4_DetectReportsCycleABC ==
  graphLast.op = "detect_circular_dependencies" =>
    /\ (TypeInfos \subseteq nodes /\ CycleABC \subseteq AllPairs(edges)) =>
         /\ ~graphLast.ok
         /\ \E i \in 1..Len(graphLast.cycles) :
              IsRotationOf(graphLast.cycles[i], <<"A", "B", "C">>)
    /\ ~HasCycle(AllPairs(edges)) => graphLast.ok


\* =====================================================================
\* Claims about the DiContainerImpl
\* =====================================================================
LifetimeOf(t) == HashMapGet(registrations, t).lifetime

RegisterOps == {"register_component", "register_instance", "register_factory"}

C6_ReRegistrationLastWriteWins ==
  [][ \A t \in TypeIds :
        /\ (is_registered_by_type_id(t) /\ diLast'.op # "clear") =>
             is_registered_by_type_id(t)'
        /\ (diLast'.op \in RegisterOps /\ diLast'.id = t) =>
             /\ {e \in registrations' : e[1] = t} = {<<t, diLast'.registration>>}
             /\ Cardinality({e \in registrations' : e[1] = t}) = 1 ]_vars

\* an identity that already had a cached instance was registered again, with
\* a factory, and the table holds that later registration
C6_Witness ==
  /\ diLast.op = "register_factory"
  /\ HashMapContainsKey(singletons, diLast.id)
  /\ HashMapValues(registrations, diLast.id) = {diLast.registration}

\* C7: while an identity is registered as Transient, every successful resolve
\* invokes the factory, the handles returned are pairwise distinct instances,
\* and the singleton cache never holds an instance created under a Transient
\* registration.
C7_TransientResolvesAreFresh ==
  /\ \A t \in TypeIds :
       (is_registered_by_type_id(t) /\ LifetimeOf(t) = "Transient") =>
         \A i, j \in 1..Len(handles[t]) :
           i # j => handles[t][i].ptr # handles[t][j].ptr
  /\ ( /\ diLast.op = "resolve"
       /\ diLast.result = "Ok"
       /\ is_registered_by_type_id(diLast.id)
       /\ LifetimeOf(diLast.id) = "Transient" ) => diLast.created
  /\ \A e \in singletons : e[2].lifetime # "Transient"


\* =====================================================================
\* Claims about the AdSystemConfigManager
\* =====================================================================
\* the registered range rule of the example: timeout_ms must be >= 100
FailsRangeRule(content) ==
  <<"timeout_ms">> \in DOMAIN content /\ content[<<"timeout_ms">>] < 100

FileChangeEventTypes == {"Created", "Updated", "Deleted"}

BeforeChange(i) == config_history[i].description = "Before applying change"

C8_RollbackRestoresS1 ==
  ( /\ cfgLast.op = "rollback_last_change"
    /\ Len(config_history) >= 2
    /\ BeforeChange(Len(config_history) - 1)
    /\ BeforeChange(Len(config_history)) ) =>
      /\ cfgLast.result = "Ok"
      /\ \A k \in DOMAIN config_history[Len(config_history) - 1].config_data :
           /\ k \in LiveKeys
           /\ LiveConfiguration[k] = config_history[Len(config_history) - 1].config_data[k]

\* C9: once rollback_last_change has succeeded on a history of exactly two
\* snapshots, one snapshot is left, and a rollback_last_change made next fails
\* with NoRollbackAvailable.
C9_SecondRollbackFails ==
  [][ ( /\ cfgLast.op = "rollback_last_change"
        /\ cfgLast.result = "Ok"
        /\ cfgLast.history_len = 2 ) =>
        /\ Len(config_history) = 1
        /\ cfgLast'.op = "rollback_last_change" =>
             cfgLast'.result = "NoRollbackAvailable" ]_vars

\* the providers that define key k of section sn
Definers(sn, k) == {i \in 1..Len(providers) : <<sn, k>> \in DOMAIN providers[i].config}

SectionKeys(sn) == {q[2] : q \in {r \in Keys : Len(r) = 2 /\ r[1] = sn}}

\* C10: get_section(name) returns the union of the keys the providers define
\* under the section, each with the value of a provider of highest priority
\* among those defining it; with P1 (priority 100, db.port=5432) and P2
\* (priority 50, db.port=5433, db.host=localhost) it yields
\* {port: 5432, host: localhost}.
C10_GetSectionMergesByPriority ==
  cfgLast.op = "get_section" =>
    LET sn == cfgLast.section
        keys == {k \in SectionKeys(sn) : Definers(sn, k) # {}}
    IN /\ keys # {} =>
            /\ cfgLast.result = "Ok"
            /\ DOMAIN cfgLast.data = keys
            /\ \A k \in keys : \E i \in Definers(sn, k) :
                 /\ cfgLast.data[k] = providers[i].config[<<sn, k>>]
                 /\ \A j \in Definers(sn, k) : providers[j].priority <= providers[i].priority
       /\ ( /\ sn = "db"
            /\ Len(providers) = 2
            /\ \E i, j \in 1..2 :
                 /\ providers[i] = [name |-> "P1", priority |-> 100, config |-> File1]
                 /\ providers[j] = [name |-> "P2", priority |-> 50, config |-> File2] ) =>
            /\ cfgLast.result = "Ok"
            /\ DOMAIN cfgLast.data = {"port", "host"}
            /\ cfgLast.data["port"] = 5432
            /\ cfgLast.data["host"] = "localhost"

\* the section db was read with P1 (100, db.port=5432) and P2 (50,
\* db.port=5433, db.host=localhost) registered
C10_Witness ==
  /\ cfgLast.op = "get_section"
  /\ cfgLast.section = "db"
  /\ cfgLast.result = "Ok"
  /\ Len(providers) = 2
  /\ providers[1] = [name |-> "P1", priority |-> 100, config |-> File1]
  /\ providers[2] = [name |-> "P2", priority |-> 50, config |-> File2]


\* the providers that hold key k
Holders(k) == {i \in 1..Len(providers) : k \in DOMAIN providers[i].config}

\* C11: get_configuration(key) returns the value a provider of
\* highest priority among those holding the key holds, and fails with
\* KeyNotFound only if no registered provider holds the key.
C11_GetReturnsFirstSourceValue ==
  cfgLast.op = "get_configuration" =>
    IF Holders(cfgLast.key) = {}
    THEN cfgLast.result = "KeyNotFound"
    ELSE /\ cfgLast.result = "Ok"
         /\ \E i \in Holders(cfgLast.key) :
              /\ cfgLast.value = providers[i].config[cfgLast.key]
              /\ \A j \in Holders(cfgLast.key) : providers[j].priority <= providers[i].priority


\* C12: when a file-change event for the file of a registered provider has
\* been processed with an event handler set, and the content of the changed
\* file fails the range rule, an event of type ValidationFailed was sent to
\* the event handler.
C12_ValidationFailureEmitsValidationFailed ==
  ( /\ cfgLast.op = "handle_config_change_event"
    /\ cfgLast.event.event_type \in FileChangeEventTypes
    /\ \E i \in 1..Len(providers) : providers[i].name = cfgLast.event.path
    /\ FailsRangeRule(disk[cfgLast.event.path])
    /\ event_handler ) =>
      \E i \in 1..Len(cfgLast.sent) : cfgLast.sent[i].event_type = "ValidationFailed"


\* what enabling or disabling hot reload acts on: the flag, the history, the
\* watcher and the event loop
hotReloadState == <<hot_reload_enabled, config_history, is_watching, change_handler_task>>

\* C13: enable_hot_reload made while hot reload is enabled, and
\* disable_hot_reload made while it is disabled, change nothing: no snapshot
\* is added, the watcher is neither started nor stopped, no event loop is
\* created or aborted.
C13_ReentrantEnableDisableIsNoOp ==
  [][ /\ (cfgLast'.op = "enable_hot_reload" /\ hot_reload_enabled) =>
           hotReloadState' = hotReloadState
      /\ (cfgLast'.op = "disable_hot_reload" /\ ~hot_reload_enabled) =>
           hotReloadState' = hotReloadState ]_vars

\* hot reload was enabled again while enabled, with a snapshot in the history
C13_Witness ==
  /\ cfgLast.op = "enable_hot_reload"
  /\ cfgLast.was_enabled
  /\ hot_reload_enabled
  /\ Len(config_history) >= 1

C15_RollbackNeedsTwoSnapshots ==
  [][ (cfgLast'.op = "rollback_last_change" /\ Len(config_history) < 2) =>
        /\ cfgLast'.result = "NoRollbackAvailable"
        /\ config_cache' = config_cache
        /\ LiveConfiguration' = LiveConfiguration
        /\ config_history' = config_history ]_vars

\* rollback_last_change failed on a history of one snapshot whose map differs
\* from the cache
C15_Witness ==
  /\ cfgLast.op = "rollback_last_change"
  /\ cfgLast.result = "NoRollbackAvailable"
  /\ Len(config_history) = 1
  /\ config_history[1].config_data # config_cache

\* the positions of the snapshots of the history that carry `version`
SnapshotsWithVersion(history, version) ==
  {i \in 1..Len(history) : history[i].version = version}

\* C16: rollback_to_version(v) fails with VersionNotFound and changes nothing
\* when no snapshot of the history carries version v, and otherwise restores
\* the map that the snapshot carrying v holds, whichever snapshot carries v.
C16_RollbackToVersionRestoresThatSnapshot ==
  [][ cfgLast'.op = "rollback_to_version" =>
        LET same == SnapshotsWithVersion(config_history, cfgLast'.version)
        IN IF same = {}
           THEN /\ cfgLast'.result = "VersionNotFound"
                /\ config_cache' = config_cache
                /\ config_history' = config_history
           ELSE /\ cfgLast'.result = "Ok"
                /\ \A i \in same : config_cache' = config_history[i].config_data
                /\ config_history' = config_history ]_vars


\* C17: start() takes the status to Starting, then to Running when both
\* validations return Ok, and to Failed with an error when either returns
\* Err; a start that returns an error leaves the status Failed, never Running.
C17_StartEndsRunningOrFailed ==
  [][ infraLast'.op = "start" =>
        /\ infraLast'.step = "begin" =>
             (status' = "Starting" /\ infraLast'.result = "Pending")
        /\ (infraLast'.step # "begin" /\ infraLast'.input = "Err") =>
             (status' = "Failed" /\ infraLast'.result \notin {"Ok", "Pending"})
        /\ (infraLast'.step = "validate" /\ infraLast'.input = "Ok") =>
             (status = "Starting" => status' = "Running") /\ infraLast'.result = "Ok"
        /\ infraLast'.result \notin {"Ok", "Pending"} => status' # "Running"
        /\ infraLast'.result = "Ok" => status' = "Running" ]_vars

\* a start made on a freshly built instance has returned Ok
C17_Witness ==
  /\ infraLast.op = "start"
  /\ infraLast.result = "Ok"
  /\ status = "Running"
  /\ start_pc = "idle"

\* C18: after a bootstrap that failed, in build() or in start(), the status
\* is Failed and neither the file watcher nor the event loop that the
\* bootstrap started is running.
C18_FailedBootstrapLeavesNothingRunning ==
  (/\ infraLast.op \in {"build", "start"}
   /\ infraLast.result \notin {"Ok", "Pending"})
    => (status = "Failed" /\ ~is_watching /\ ~change_handler_task)

\* C19: stop() takes the status to Stopping and then to Stopped, and when it
\* returns the hot-reload watcher and event loop are stopped.
C19_StopStopsHotReloadLoop ==
  [][ infraLast'.op = "stop" =>
        /\ infraLast'.step = "begin" => status' = "Stopping"
        /\ infraLast'.step = "finish" =>
             (status' = "Stopped" /\ ~is_watching' /\ ~change_handler_task') ]_vars

\* the checkers a sweep visits: all of them for check_health, the enabled
\* ones for check_all; and the limit it gives to the checker c
SweptIndexes(sweep) ==
  IF sweep.op = "check_all" THEN EnabledIndexes(sweep.checkers)
  ELSE [i \in 1..Len(sweep.checkers) |-> i]

SweepLimit(sweep, c) == IF sweep.op = "check_all" THEN c.timeout ELSE SweepTimeoutSecs

\* C20: in a health sweep, a check that takes longer than the limit the sweep
\* gives it is reported Unhealthy with the timeout message, and the sweep
\* reports every checker it visits, in order, the others with the status they
\* returned.
C20_TimedOutCheckIsUnhealthyAndSweepGoesOn ==
  infraLast.op \in {"check_health", "check_all"} =>
    LET idx == SweptIndexes(infraLast)
    IN /\ Len(infraLast.results) = Len(idx)
       /\ \A k \in 1..Len(idx) :
            LET c == infraLast.checkers[idx[k]]
                o == infraLast.outcomes[idx[k]]
                r == infraLast.results[k]
            IN /\ r.name = c.name
               /\ o.duration > SweepLimit(infraLast, c) =>
                    r.status = [kind |-> "Unhealthy", error |-> TimeoutMessage]
               /\ o.duration <= SweepLimit(infraLast, c) => r.status = o.status

\* a sweep whose first check ran out of time and whose second check was
\* reported Healthy
C20_Witness ==
  /\ infraLast.op \in {"check_health", "check_all"}
  /\ Len(infraLast.results) = 2
  /\ infraLast.outcomes[1].duration > SweepLimit(infraLast, infraLast.checkers[1])
  /\ infraLast.results[1].status = [kind |-> "Unhealthy", error |-> TimeoutMessage]
  /\ infraLast.results[2].status = [kind |-> "Healthy"]


\* C21: after clear() no identity is registered, get_registered_components is
\* empty and no instance is cached; a resolve made right after clear() fails
\* with ComponentNotRegistered and returns no instance.
C21_ClearDropsRegistrationsAndInstances ==
  [][ /\ diLast'.op = "clear" =>
           /\ \A t \in TypeIds : ~is_registered_by_type_id(t)'
           /\ get_registered_components' = {}
           /\ singletons' = {}
      /\ (diLast.op = "clear" /\ diLast'.op = "resolve") =>
           (diLast'.result = "ComponentNotRegistered" /\ diLast'.instance = None) ]_vars

\* clear() was called on a container holding a registration and a cached
\* instance
C21_Witness ==
  /\ diLast.op = "clear"
  /\ diLast.had # {}
  /\ diLast.cached # {}
  /\ registrations = {}
  /\ singletons = {}


\* C23: the versions of the snapshots in the history increase strictly in
\* creation order, so no two snapshots of the history share a version.
C23_SnapshotVersionsIncrease ==
  \A i, j \in 1..Len(config_history) :
    i < j => config_history[i].version < config_history[j].version

\* an operation that appends a snapshot to the history has just run
SnapshotAppended(last) ==
  \/ last.op = "handle_config_change_event"
  \/ last.op = "enable_hot_reload" /\ ~last.was_enabled

\* C24: after a snapshot is appended the history holds at most
\* max_history_size snapshots, and what it holds is the end of the old history
\* followed by the new snapshot (the oldest snapshots are the ones evicted).
C24_HistoryStaysWithinCap ==
  [][ SnapshotAppended(cfgLast') =>
        /\ Len(config_history') <= max_history_size'
        /\ \E k \in 0..Len(config_history) :
             SubSeq(config_history', 1, Len(config_history') - 1) =
               SubSeq(config_history, k + 1, Len(config_history)) ]_vars

\* C25: an identity that is already on the resolution chain of a resolve is
\* never entered again: the second request fails at once with
\* CircularDependency, so no chain of nested resolve() calls holds the same
\* identity twice.
C25_NoIdentityTwiceOnTheChain ==
  \A k \in Tasks : \A i, j \in 1..Len(resolving[k]) :
    i < j => resolving[k][i].id # resolving[k][j].id

\* C26: concurrent resolvers of one Singleton converge on one instance: a
\* resolve() that started after the cache held the identity returned the
\* instance that the cache holds.
C26_SingletonResolversConverge ==
  \A k \in Tasks :
    (resolved[k].result = "Ok" /\ resolved[k].started_cached)
      => /\ HashMapContainsKey(singletons, resolved[k].id)
         /\ HashMapGet(singletons, resolved[k].id) = resolved[k].instance

\* C27: while a factory executes, the resolver that called it holds no guard
\* of the registration-table lock.
C27_NoLockHeldWhileFactoryRuns ==
  \A k \in Tasks :
    (resolving[k] # <<>> /\ Top(k).pc = "factory") => registrations_readers[k] = 0

\* C22: while hot reload is enabled, a filesystem create/modify/remove event
\* on a watched path puts the matching ConfigChangeEvent on the queue, and
\* the loop processes an event against the manager hot reload was enabled
\* on: its snapshot step adds a snapshot to that manager's history.
C22_FileEventsReachTheManager ==
  [][ /\ (pipeLast' # pipeLast /\ pipeLast'.op = "fs_event" /\ hot_reload_enabled) =>
           /\ Len(change_queue') = Len(change_queue) + 1
           /\ change_queue'[Len(change_queue')].event_type =
                ConfigChangeEventTypeOf(pipeLast'.kind)
      /\ (pipeLast' # pipeLast /\ pipeLast'.op = "snapshot") =>
           config_history' # config_history ]_vars

\* the arrival numbers of the events waiting on the queue
QueuedSeqs == [i \in 1..Len(change_queue) |-> change_queue[i].seq]

C29_InFlightSequenceFinishesBeforeExit ==
  pipeLast.op = "abort" => pipeLast.pc = "recv"

C31_CacheInvalidatedWholesale ==
  [][ ( \/ cfgLast'.op \in {"register_provider", "reload_all"}
        \/ (cfgLast'.op = "unregister_provider" /\ cfgLast'.result = "Ok") )
      => config_cache' = <<>> ]_vars

\* the edges that are not optional, in push order
RequiredEdges == SelectSeq(edges, LAMBDA e : ~e.optional)

\* C32: the outcome of topological_sort depends only on the required edges:
\* it is an outcome topological_sort has on the same nodes with the optional
\* edges left out, and when it succeeds the order holds every node.
C32_OptionalEdgesDoNotAffectTheOrder ==
  graphLast.op = "topological_sort" =>
    /\ \E iterOrder \in Orders(InDegreeKeys(nodes, RequiredEdges)) :
         graphLast = TopoResult(nodes, RequiredEdges, iterOrder)
    /\ graphLast.ok => Range(graphLast.order) = nodes

\* C33: a graph built from N registered components with distinct identities
\* has exactly N nodes, one per component.
C33_OneNodePerComponent ==
  graphLast.op = "build_dependency_graph" =>
    Cardinality(nodes) = Cardinality(graphLast.components)

\* the directed cycles of the graph among its nodes: the sequences of
\* distinct nodes in which every node has an edge to the next, and the last
\* to the first
DirectedCycles ==
  {s \in DistinctSeqs(nodes, Cardinality(nodes)) :
     /\ Len(s) >= 1
     /\ \A i \in 1..Len(s) : <<s[i], s[(i % Len(s)) + 1]>> \in AllPairs(edges)}

\* C34: every directed cycle of the graph is in the list that
\* detect_circular_dependencies returns, in some rotation.
C34_DetectReportsEveryCycle ==
  graphLast.op = "detect_circular_dependencies" =>
    \A s \in DirectedCycles :
      \E i \in 1..Len(graphLast.cycles) : IsRotationOf(graphLast.cycles[i], s)

\* C35: for an identity registered as Scoped, two resolves in the same scope
\* return the same instance and two resolves in different scopes return
\* different instances.
C35_ScopedOneInstancePerScope ==
  \A i, j \in 1..Len(scoped_handles) :
    (/\ scoped_handles[i].id = scoped_handles[j].id
     /\ scoped_handles[i].instance.lifetime = "Scoped"
     /\ scoped_handles[j].instance.lifetime = "Scoped")
    => (scoped_handles[i].scope = scoped_handles[j].scope
        <=> scoped_handles[i].instance.ptr = scoped_handles[j].instance.ptr)

\* C36: start() never puts the system into Running while the components'
\* dependency graph contains a cycle of required dependencies.
C36_NeverRunningWithACycle ==
  [][ (status' = "Running" /\ status # "Running")
      => ~HasCycle(AllPairs(RequiredEdges)) ]_vars

\* C37: filesystem events for the same path that arrive within the debounce
\* delay of one another are coalesced: no two change events sent for one path
\* come from filesystem events less than debounce_delay apart.
C37_BurstCoalescedIntoOneEvent ==
  [][ \A i, j \in 1..Len(watcher'.change_queue) :
        (/\ i < j
         /\ j > Len(watcher.change_queue)
         /\ watcher'.change_queue[i].path = watcher'.change_queue[j].path)
        => watcher'.change_queue[j].at - watcher'.change_queue[i].at
             >= watcher.debounce_delay ]_vars

\* C38: a successful resolve returns an instance of the registration the
\* identity has now: made by the registered factory, or the instance that
\* register_instance was just given; never one cached from an earlier
\* registration.
C38_ResolveFollowsTheLaterRegistration ==
  [][ ( /\ diLast'.op = "resolve"
        /\ diLast'.result = "Ok"
        /\ is_registered_by_type_id(diLast'.id) ) =>
      LET registration == HashMapGet(registrations, diLast'.id) IN
      /\ registration.factory # None => diLast'.instance.via = registration.factory
      /\ (diLast.op = "register_instance" /\ diLast.id = diLast'.id) =>
           diLast'.instance = diLast.registration.singleton ]_vars

\* C39: when enable_hot_reload returns the watcher's error, hot reload is
\* not enabled and no consumption loop is left running; an enable_hot_reload
\* called next does not take the already-enabled return.
C39_FailedEnableLeavesManagerDisabled ==
  [][ /\ (cfgLast'.op = "enable_hot_reload" /\ cfgLast'.result = "ReloadError") =>
           /\ ~hot_reload_enabled'
           /\ ~change_handler_task'
           /\ change_loop'.pc = "none"
      /\ ( /\ cfgLast.op = "enable_hot_reload"
           /\ cfgLast.result = "ReloadError"
           /\ cfgLast'.op = "enable_hot_reload"
           /\ cfgLast' # cfgLast ) => ~cfgLast'.was_enabled ]_vars

\* the status changes the life cycle allows
AllowedStatusTransitions ==
  {<<"Initialized", "Starting">>, <<"Starting", "Running">>, <<"Starting", "Failed">>,
   <<"Running", "Stopping">>, <<"Stopping", "Stopped">>}

\* C40: whatever start() and stop() calls are made, the status of a built
\* instance only changes along Initialized->Starting, Starting->Running,
\* Starting->Failed, Running->Stopping and Stopping->Stopped.
C40_StatusFollowsTheLifeCycle ==
  [][ (status # None /\ status' # status) =>
        <<status, status'>> \in AllowedStatusTransitions ]_vars

====
